---- MODULE Spec2Model ----
(***************************************************************************)
(* Model of the operational decision engine of AeroLish                    *)
(* (src/aerolish_final.py): the token extractor parse_basic_tokens, the    *)
(* distance calculator haversine_nm, recommend_operational_actions and the *)
(* severity classifier; of the tokenizer, the deterministic summary and    *)
(* summarize_station (src/ai_analysis.py); and of the lookup caches        *)
(* (src/weather_apis.py).                                                  *)
(*                                                                         *)
(* A METAR text is a sequence of one-character strings, so that the        *)
(* regular expressions of the source are matched character by character.   *)
(* An optional value (Python's None or a value) is a sequence of length 0  *)
(* or 1: <<>> is None, <<x>> is x.                                         *)
(***************************************************************************)
EXTENDS Integers, Sequences, FiniteSets, TLC

\* The arguments of the call; its local variables tokens (optional: None until
\* the call has parsed the text) and candidates (the list as the loop over the
\* route leaves it, before the sort; empty while the loop has not run); its
\* dict out; and where the call stands.  For a call of one of the other
\* functions: its argument raw (optional: None or a text) and the value it
\* returns, ret (optional: <<>> until the call has returned); and the text
\* deterministic_summary makes of the tokens, summary (optional likewise).
\* For summarize_station: narrative, what the generative provider
\* returned, its local variable text (optional: <<>> until the provider was called), summary
\* then being the text the call returns.  For the lookup caches: the clock
\* now (utcnow, in seconds), the timestamps of the cache entries, cache, and
\* the last lookup made, lookup (optional).
VARIABLES primary_info, metar_text, severity, all_airports_in_route,
          tokens, candidates, out, pc, raw, ret, summary, narrative,
          now, cache, lookup

vars == <<primary_info, metar_text, severity, all_airports_in_route,
          tokens, candidates, out, pc, raw, ret, summary, narrative,
          now, cache, lookup>>

(***************************************************************************)
(* Characters and the character classes of Python's re module (ASCII).     *)
(***************************************************************************)
DigitChars == <<"0", "1", "2", "3", "4", "5", "6", "7", "8", "9">>

Digits == {DigitChars[i] : i \in 1..Len(DigitChars)}

Letters ==
  {"A", "B", "C", "D", "E", "F", "G", "H", "I", "J", "K", "L", "M",
   "N", "O", "P", "Q", "R", "S", "T", "U", "V", "W", "X", "Y", "Z"}

UpperChars ==
  <<"A", "B", "C", "D", "E", "F", "G", "H", "I", "J", "K", "L", "M",
    "N", "O", "P", "Q", "R", "S", "T", "U", "V", "W", "X", "Y", "Z">>

LowerChars ==
  <<"a", "b", "c", "d", "e", "f", "g", "h", "i", "j", "k", "l", "m",
    "n", "o", "p", "q", "r", "s", "t", "u", "v", "w", "x", "y", "z">>

LowerLetters == {LowerChars[i] : i \in 1..Len(LowerChars)}

\* \d
IsDigit(c) == c \in Digits

WordChars == Digits \cup Letters \cup LowerLetters \cup {"_"}

\* \w
IsWord(c) == c \in WordChars

\* \s
IsSpace(c) == c = " "

\* The character at position i of s (1-based), "" outside the text.
CharAt(s, i) == IF i >= 1 /\ i <= Len(s) THEN s[i] ELSE ""

\* \b just before position i: exactly one of the two neighbours is a word
\* character (the outside of the text counts as a non-word character).
WordBoundary(s, i) == IsWord(CharAt(s, i - 1)) # IsWord(CharAt(s, i))

\* The positions of s where a word starts: \b holds and a word character follows.
WordStarts(s) == {i \in 1..Len(s) : IsWord(s[i]) /\ ~IsWord(CharAt(s, i - 1))}

\* s[i .. i+n-1] are n digits.
DigitsAt(s, i, n) == \A k \in 0..(n - 1) : IsDigit(CharAt(s, i + k))

\* The literal lit occurs in s at position i.
LitAt(s, i, lit) == \A k \in 1..Len(lit) : CharAt(s, i + k - 1) = lit[k]

\* s[i .. j], cut at the ends of s as a Python slice is; empty when j < i.
Slice(s, i, j) ==
  LET lo == IF i < 1 THEN 1 ELSE i
      hi == IF j > Len(s) THEN Len(s) ELSE j
  IN  IF hi < lo THEN <<>> ELSE SubSeq(s, lo, hi)

DigitVal(c) == CHOOSE n \in 0..9 : DigitChars[n + 1] = c

\* int(d) for a sequence of digit characters.
RECURSIVE ParseInt(_)
ParseInt(d) ==
  IF Len(d) = 0 THEN 0
  ELSE 10 * ParseInt(SubSeq(d, 1, Len(d) - 1)) + DigitVal(d[Len(d)])

\* The smallest of the positions hits, as <<i>>, or <<>> when there is none:
\* the leftmost match of a search, the first alternative that matches.
Leftmost(hits) ==
  IF hits = {} THEN <<>>
  ELSE <<CHOOSE i \in hits : \A j \in hits : i <= j>>

(***************************************************************************)
(* parse_basic_tokens: the three regular expressions of the source, each   *)
(* matched as re.search does: the leftmost start position wins, and at a   *)
(* start position the alternatives are tried in backtracking order         *)
(* (greedy quantifiers first).                                             *)
(***************************************************************************)

\* The length of the run of whitespace that starts at position j.
RECURSIVE SpaceRun(_, _)
SpaceRun(s, j) == IF IsSpace(CharAt(s, j)) THEN 1 + SpaceRun(s, j + 1) ELSE 0

\* \d{1,2}(?:\s+\d/\d|\d/\d)? : the ways to match it, in backtracking order.
\* n is the number of leading digits, alt the branch of the optional group.
VisCandidates ==
  <<[n |-> 2, alt |-> "spaced"], [n |-> 2, alt |-> "joined"], [n |-> 2, alt |-> "none"],
    [n |-> 1, alt |-> "spaced"], [n |-> 1, alt |-> "joined"], [n |-> 1, alt |-> "none"]>>

\* \d/\d at position j.
FractionAt(s, j) ==
  IsDigit(CharAt(s, j)) /\ CharAt(s, j + 1) = "/" /\ IsDigit(CharAt(s, j + 2))

\* The position just after group 1 when candidate c matches group 1 at i,
\* 0 when it does not.
VisGroupEnd(s, i, c) ==
  LET j == i + c.n
      k == SpaceRun(s, j)
  IN  IF ~DigitsAt(s, i, c.n) THEN 0
      ELSE IF c.alt = "spaced"
        THEN IF k >= 1 /\ FractionAt(s, j + k) THEN j + k + 3 ELSE 0
      ELSE IF c.alt = "joined"
        THEN IF FractionAt(s, j) THEN j + 3 ELSE 0
      ELSE j

\* (\d{1,2}(?:\s+\d/\d|\d/\d)?)SM\b matches at i with candidate c.
VisMatchesAt(s, i, c) ==
  LET e == VisGroupEnd(s, i, c)
  IN  /\ e > 0
      /\ LitAt(s, e, <<"S", "M">>)
      /\ WordBoundary(s, e + 2)

\* \b(\d{1,2}(?:\s+\d/\d|\d/\d)?)SM\b matches at the word start i.
VisStartsAt(s, i) ==
  /\ IsDigit(CharAt(s, i))
  /\ \E k \in 1..Len(VisCandidates) : VisMatchesAt(s, i, VisCandidates[k])

\* group(1) of the visibility match, as <<chars>>, or <<>> without a match.
\* Each pattern begins with \b and a word character, so a match starts at one
\* of the word starts ws of s.
VisSearch(s, ws) ==
  LET at == Leftmost({i \in ws : VisStartsAt(s, i)})
  IN  IF at = <<>> THEN <<>>
      ELSE LET c == VisCandidates[Leftmost({k \in 1..Len(VisCandidates) :
                                               VisMatchesAt(s, at[1], VisCandidates[k])})[1]]
           IN  <<Slice(s, at[1], VisGroupEnd(s, at[1], c) - 1)>>

\* v.replace(" ", "")
RemoveSpaces(v) == SelectSeq(v, LAMBDA ch : ch # " ")

\* The value of group(1): float(num) / float(den) when it holds a "/",
\* float(v) otherwise, as the exact rational [num, den]; <<>> when the
\* division raises (den = 0) and the except clause leaves vis_sm None.
VisValue(g) ==
  LET v == RemoveSpaces(g)
      slash == Leftmost({i \in 1..Len(v) : v[i] = "/"})
  IN  IF slash # <<>>
      THEN LET num == ParseInt(Slice(v, 1, slash[1] - 1))
               den == ParseInt(Slice(v, slash[1] + 1, Len(v)))
           IN  IF den = 0 THEN <<>> ELSE <<[num |-> num, den |-> den]>>
      ELSE <<[num |-> ParseInt(v), den |-> 1]>>

\* \b(BKN|OVC)(\d{3})\b matches at the word start i.
CeilMatchesAt(s, i) ==
  /\ (LitAt(s, i, <<"B", "K", "N">>) \/ LitAt(s, i, <<"O", "V", "C">>))
  /\ DigitsAt(s, i + 3, 3)
  /\ WordBoundary(s, i + 6)

\* (\d{2,3})(G(\d{2,3}))? : the ways to match it, in backtracking order.
\* sp is the number of speed digits, g the number of gust digits (0: no gust).
WindCandidates ==
  <<[sp |-> 3, g |-> 3], [sp |-> 3, g |-> 2], [sp |-> 3, g |-> 0],
    [sp |-> 2, g |-> 3], [sp |-> 2, g |-> 2], [sp |-> 2, g |-> 0]>>

\* (\d{3})(\d{2,3})(G(\d{2,3}))?KT\b matches at i with candidate c.
WindMatchesAt(s, i, c) ==
  LET j == i + 3 + c.sp
      e == IF c.g = 0 THEN j ELSE j + 1 + c.g
  IN  /\ DigitsAt(s, i, 3)
      /\ DigitsAt(s, i + 3, c.sp)
      /\ c.g > 0 => (CharAt(s, j) = "G" /\ DigitsAt(s, j + 1, c.g))
      /\ LitAt(s, e, <<"K", "T">>)
      /\ WordBoundary(s, e + 2)

\* \b(\d{3})(\d{2,3})(G(\d{2,3}))?KT\b matches at the word start i.
WindStartsAt(s, i) ==
  /\ IsDigit(CharAt(s, i))
  /\ \E k \in 1..Len(WindCandidates) : WindMatchesAt(s, i, WindCandidates[k])

\* The wind match as <<[dir, spd, gust]>> (gust optional), or <<>>.
WindSearch(s, ws) ==
  LET at == Leftmost({i \in ws : WindStartsAt(s, i)})
  IN  IF at = <<>> THEN <<>>
      ELSE LET i == at[1]
               c == WindCandidates[Leftmost({k \in 1..Len(WindCandidates) :
                                            WindMatchesAt(s, i, WindCandidates[k])})[1]]
               j == i + 3 + c.sp
           IN  <<[dir |-> Slice(s, i, i + 2),
                  spd |-> ParseInt(Slice(s, i + 3, j - 1)),
                  gust |-> IF c.g = 0 THEN <<>>
                           ELSE <<ParseInt(Slice(s, j + 1, j + c.g))>>]>>

\* The tokens of a raw METAR: vis_sm an optional rational, ceil_ft and gust
\* optional integers, wind an optional [dir, spd].
parse_basic_tokens(raw_metar) ==
  LET ws == WordStarts(raw_metar)
      vm == VisSearch(raw_metar, ws)
      cm == Leftmost({i \in ws : CeilMatchesAt(raw_metar, i)})
      wm == WindSearch(raw_metar, ws)
  IN  [vis_sm  |-> IF vm = <<>> THEN <<>> ELSE VisValue(vm[1]),
       ceil_ft |-> IF cm = <<>> THEN <<>>
                   ELSE <<ParseInt(Slice(raw_metar, cm[1] + 3, cm[1] + 5)) * 100>>,
       gust    |-> IF wm = <<>> THEN <<>> ELSE wm[1].gust,
       wind    |-> IF wm = <<>> THEN <<>>
                   ELSE <<[dir |-> wm[1].dir, spd |-> wm[1].spd]>>]

(***************************************************************************)
(* haversine_nm in fixed point.  Coordinates are integers in units of      *)
(* 1/10000 degree; angles and the values of sin, cos and sqrt are integers *)
(* scaled by Scale.  Every intermediate value fits 32 bits.  The result is *)
(* in 1/100 NM and is within 0.5 percent of the floating-point value.      *)
(***************************************************************************)
Scale == 1000000

\* pi and pi/2, scaled.
Pi == 3141593

HalfPi == 1570796

\* pi/180, scaled by 10^8: radians(x) for x in 1/10000 degree, scaled by Scale.
RadPerDeg == 1745329

\* R_km of the source.
R_km == 6371

\* The km -> NM factor 0.539957 of the source, scaled by Scale.
KmToNm == 539957

\* The search radius of the alternates, in NM.
RadiusNm == 350

\* The length of the alternates shortlist.
MaxAlternates == 5

Abs(x) == IF x < 0 THEN 0 - x ELSE x

Max(x, y) == IF x >= y THEN x ELSE y

\* x * y / Scale for scaled x, y >= 0, by halves of three decimal digits.
MulS(x, y) ==
  LET xh == x \div 1000
      xl == x % 1000
      yh == y \div 1000
      yl == y % 1000
  IN  xh * yh + ((xh * yl + xl * yh + (xl * yl) \div 1000) \div 1000)

\* y * Scale / x for 0 <= y <= x, by long division in base 100.
DivS(y, x) ==
  LET d1 == (y * 100) \div x
      r1 == (y * 100) % x
      d2 == (r1 * 100) \div x
      r2 == (r1 * 100) % x
      d3 == (r2 * 100) \div x
  IN  d1 * 10000 + d2 * 100 + d3

\* The integer square root of n, by bisection on lo..hi (lo*lo <= n < hi*hi).
RECURSIVE IsqrtIn(_, _, _)
IsqrtIn(n, lo, hi) ==
  IF hi - lo <= 1 THEN lo
  ELSE LET mid == (lo + hi) \div 2
       IN  IF mid * mid <= n THEN IsqrtIn(n, mid, hi) ELSE IsqrtIn(n, lo, mid)

Isqrt(n) == IsqrtIn(n, 0, 46341)

\* radians(d) for d >= 0 in 1/10000 degree.
Radians(d) == MulS(d, RadPerDeg)

\* sin(x) for 0 <= x <= pi: Taylor series to x^11 after reflection to [0, pi/2].
Sin(x0) ==
  LET x   == IF x0 > HalfPi THEN Max(Pi - x0, 0) ELSE x0
      x2  == MulS(x, x)
      t3  == MulS(x, x2) \div 6
      t5  == MulS(t3, x2) \div 20
      t7  == MulS(t5, x2) \div 42
      t9  == MulS(t7, x2) \div 72
      t11 == MulS(t9, x2) \div 110
  IN  x - t3 + t5 - t7 + t9 - t11

\* cos(x) for 0 <= x <= pi/2: Taylor series to x^12.
Cos(x) ==
  LET x2  == MulS(x, x)
      c2  == x2 \div 2
      c4  == MulS(c2, x2) \div 12
      c6  == MulS(c4, x2) \div 30
      c8  == MulS(c6, x2) \div 56
      c10 == MulS(c8, x2) \div 90
      c12 == MulS(c10, x2) \div 132
  IN  Scale - c2 + c4 - c6 + c8 - c10 + c12

\* sqrt(v) for a scaled 0 <= v <= 1.3.
SqrtS(v) == Isqrt(v * 1600) * 25

\* t / (1 + sqrt(1 + t^2)) = tan(atan(t) / 2), for 0 <= t <= 1.
TanHalf(t) == DivS(t, Scale + Isqrt((Scale + MulS(t, t)) * 400) * 50)

\* atan(t) for 0 <= t <= 1: two angle halvings, then the series to u^9.
Atan(t) ==
  LET u  == TanHalf(TanHalf(t))
      u2 == MulS(u, u)
      a3 == MulS(u, u2)
      a5 == MulS(a3, u2)
      a7 == MulS(a5, u2)
      a9 == MulS(a7, u2)
  IN  4 * (u - (a3 \div 3) + (a5 \div 5) - (a7 \div 7) + (a9 \div 9))

\* atan2(y, x) for x, y >= 0, not both 0.
Atan2(y, x) ==
  IF y = 0 THEN 0
  ELSE IF y <= x THEN Atan(DivS(y, x))
  ELSE HalfPi - Atan(DivS(x, y))

\* sqrt(a) of the source, a = sin(dlat/2)^2 + cos(lat1) cos(lat2) sin(dlon/2)^2,
\* from the unsquared sines sd, sl (scaled down by k so that the squares fit).
SqrtA(sd, sl, cc) ==
  LET k   == 1 + (Max(sd, sl) \div 30000)
      sdk == sd \div k
      slk == sl \div k
      r   == Isqrt(sdk * sdk + MulS(cc, slk * slk)) * k
  IN  IF r > Scale THEN Scale ELSE r

\* A variant that leaves the distance in km (in 1/100 km).
haversine_nm_InKm(lat1, lon1, lat2, lon2) ==
  LET sd  == Sin(Radians(Abs(lat2 - lat1)) \div 2)
      sl  == Sin(Radians(Abs(lon2 - lon1)) \div 2)
      cc  == MulS(Cos(Radians(Abs(lat1))), Cos(Radians(Abs(lat2))))
      ra  == SqrtA(sd, sl, cc)
      rb  == SqrtS(Scale - MulS(ra, ra))
      ang == Atan2(ra, rb)
  IN  MulS(ang, 2 * R_km * 100)

\* The distance in 1/100 NM between two points given in 1/10000 degree.
haversine_nm(lat1, lon1, lat2, lon2) ==
  LET sd  == Sin(Radians(Abs(lat2 - lat1)) \div 2)
      sl  == Sin(Radians(Abs(lon2 - lon1)) \div 2)
      cc  == MulS(Cos(Radians(Abs(lat1))), Cos(Radians(Abs(lat2))))
      ra  == SqrtA(sd, sl, cc)
      rb  == SqrtS(Scale - MulS(ra, ra))
      ang == Atan2(ra, rb)
      d   == MulS(ang, 2 * R_km * 100)
  IN  MulS(d, KmToNm)

\* round(x, 1) for x >= 0 in 1/100, in 1/10: ties go to the even digit.
Round1(x) ==
  LET q == x \div 10
      r == x % 10
  IN  IF r > 5 \/ (r = 5 /\ q % 2 = 1) THEN q + 1 ELSE q

(***************************************************************************)
(* recommend_operational_actions.                                          *)
(*                                                                         *)
(* primary_info is [name, latitude, longitude] with optional coordinates;  *)
(* a route is optional (None or a list) and its members are                *)
(* [code, info, severity], severity standing for                           *)
(* ap["current_weather"]["parsed"]["severity"].  A risk alert is           *)
(* [kind, value]: value is what the f-string prints, the visibility        *)
(* rounded to one decimal (in 1/10 SM), the ceiling in ft, the gust in kt. *)
(* distance_nm of a candidate is in 1/10 NM.                               *)
(***************************************************************************)
ReasonHard == "SEVERE conditions"

ReasonSoft == "Marginal visibility/ceiling or strong gusts"

DetourText ==
  "Re-sequence to bypass SEVERE airports; plan fuel for extended routing and consider intermediate CLEAR/MODERATE stops."

DelayText ==
  "High disruption risk along the route; consider a ground delay window and monitor AWC convective outlooks/GAIRMETs."

\* The dict out as first built: the inactive result.
InactiveOut ==
  [active               |-> FALSE,
   reason               |-> "",
   risk_alerts          |-> <<>>,
   delay_advisory       |-> <<>>,
   alternate_candidates |-> <<>>,
   detour_suggestions   |-> <<>>]

\* Python's truth value of an optional number: None and 0.0 are false.
Truthy(o) == o # <<>> /\ o[1] # 0

\* Python's truth value of an optional list: None and [] are false.
TruthyList(o) == o # <<>> /\ Len(o[1]) > 0

\* tokens["vis_sm"] <= 3.0 and tokens["vis_sm"] <= 1.0, on the exact rational.
VisAtMost(t, limit) ==
  t.vis_sm # <<>> /\ t.vis_sm[1].num <= limit * t.vis_sm[1].den

CeilBelow1000(t) == t.ceil_ft # <<>> /\ t.ceil_ft[1] < 1000

\* Mutant: the gust alert from 25 kt on.
GustAtLeast30_From25(t) == t.gust # <<>> /\ t.gust[1] >= 25

GustAtLeast30(t) == t.gust # <<>> /\ t.gust[1] >= 30

\* Mutant: MODERATE counts as a hard trigger too.
HardTrigger_ModerateToo(sev) == sev \in {"SEVERE", "MODERATE"}

HardTrigger(sev) == sev = "SEVERE"

SoftTrigger(t) ==
  VisAtMost(t, 3) \/ CeilBelow1000(t) \/ GustAtLeast30(t)

\* f"{v:.1f}" of the rational v, in 1/10: round-half-even (the ties of a
\* quotient by a one-digit denominator are exact binary fractions).
Format1f(v) ==
  LET q  == (10 * v.num) \div v.den
      r2 == 2 * ((10 * v.num) % v.den)
  IN  IF r2 > v.den \/ (r2 = v.den /\ q % 2 = 1) THEN q + 1 ELSE q

\* Mutant: the gust alert is appended first.
RiskAlerts_GustFirst(t) ==
     (IF GustAtLeast30(t)
        THEN <<[kind |-> "Gusts", value |-> t.gust[1]]>>
        ELSE <<>>)
  \o (IF VisAtMost(t, 1)
        THEN <<[kind |-> "Low visibility", value |-> Format1f(t.vis_sm[1])]>>
        ELSE <<>>)
  \o (IF CeilBelow1000(t)
        THEN <<[kind |-> "Low ceiling", value |-> t.ceil_ft[1]]>>
        ELSE <<>>)

RiskAlerts(t) ==
     (IF VisAtMost(t, 1)
        THEN <<[kind |-> "Low visibility", value |-> Format1f(t.vis_sm[1])]>>
        ELSE <<>>)
  \o (IF CeilBelow1000(t)
        THEN <<[kind |-> "Low ceiling", value |-> t.ceil_ft[1]]>>
        ELSE <<>>)
  \o (IF GustAtLeast30(t)
        THEN <<[kind |-> "Gusts", value |-> t.gust[1]]>>
        ELSE <<>>)

\* The guard of the source on a pair of coordinates: lat and lon.
HasCoordinates(info) == Truthy(info.latitude) /\ Truthy(info.longitude)

\* The alternates block runs.
AlternatesComputed(primary, route) == TruthyList(route) /\ HasCoordinates(primary)

\* Mutant: the loop does not skip a member without coordinates.
ReachesDistance_NoCoordinateCheck(ap) == ap.severity # "SEVERE"

\* The loop body reaches haversine_nm for member ap.
ReachesDistance(ap) == HasCoordinates(ap.info) /\ ap.severity # "SEVERE"

\* haversine_nm raises TypeError when a coordinate is None.
DistanceRaises(primary, ap) ==
  \/ primary.latitude = <<>> \/ primary.longitude = <<>>
  \/ ap.info.latitude = <<>> \/ ap.info.longitude = <<>>

DistanceTo(primary, ap) ==
  haversine_nm(primary.latitude[1], primary.longitude[1],
               ap.info.latitude[1], ap.info.longitude[1])

\* A variant that leaves out a member at the place of the primary.
WithinRadius_NotAtPrimary(dist) == dist > 0 /\ dist <= RadiusNm * 100

\* dist_nm <= 350, dist_nm in 1/100 NM.
WithinRadius(dist) == dist <= RadiusNm * 100

\* The list candidates after the loop, in route order.
RECURSIVE Candidates(_, _)
Candidates(primary, legs) ==
  IF Len(legs) = 0 THEN <<>>
  ELSE LET ap   == Head(legs)
           rest == Candidates(primary, Tail(legs))
       IN  IF ~ReachesDistance(ap) THEN rest
           ELSE LET dist == DistanceTo(primary, ap)
                IN  IF WithinRadius(dist)
                    THEN <<[code        |-> ap.code,
                            name        |-> ap.info.name,
                            severity    |-> ap.severity,
                            distance_nm |-> Round1(dist)]>> \o rest
                    ELSE rest

\* Mutant: the sort is by distance alone.
KeyLeq_DistanceOnly(x, y) == x.distance_nm <= y.distance_nm

\* The sort key (x["severity"] != "CLEAR", x["distance_nm"]), compared as
\* Python compares tuples (False < True).
KeyLeq(x, y) ==
  LET bx == IF x.severity # "CLEAR" THEN 1 ELSE 0
      by == IF y.severity # "CLEAR" THEN 1 ELSE 0
  IN  bx < by \/ (bx = by /\ x.distance_nm <= y.distance_nm)

\* x inserted into the sorted list after every element not greater than it.
RECURSIVE Insert(_, _)
Insert(sorted, x) ==
  IF Len(sorted) = 0 THEN <<x>>
  ELSE IF KeyLeq(Head(sorted), x) THEN <<Head(sorted)>> \o Insert(Tail(sorted), x)
  ELSE <<x>> \o sorted

\* list.sort(key=...): a stable sort.
RECURSIVE SortCandidates(_)
SortCandidates(cands) ==
  IF Len(cands) = 0 THEN <<>>
  ELSE Insert(SortCandidates(SubSeq(cands, 1, Len(cands) - 1)), cands[Len(cands)])

\* candidates[:5]
Truncate(cands) == Slice(cands, 1, IF Len(cands) < MaxAlternates THEN Len(cands) ELSE MaxAlternates)

\* The list candidates when the alternates block is done (empty if it is skipped).
RouteCandidates(primary, route) ==
  IF AlternatesComputed(primary, route) THEN Candidates(primary, route[1]) ELSE <<>>

\* out["alternate_candidates"] from the list candidates.
Shortlist(cands) == Truncate(SortCandidates(cands))

AlternateCandidates(primary, route) == Shortlist(RouteCandidates(primary, route))

CountSeverity(legs, sevs) == Cardinality({i \in 1..Len(legs) : legs[i].severity \in sevs})

\* Mutant: one suggestion for each SEVERE member.
DetourSuggestions_PerSevereMember(route) ==
  IF TruthyList(route)
  THEN [k \in 1..CountSeverity(route[1], {"SEVERE"}) |-> DetourText]
  ELSE <<>>

DetourSuggestions(route) ==
  IF TruthyList(route) /\ CountSeverity(route[1], {"SEVERE"}) > 0
  THEN <<DetourText>> ELSE <<>>

\* Mutant: the threshold without its floor of 2.
DelayThreshold_NoFloor(total) == total \div 2

\* modsev >= max(2, total // 2)
DelayThreshold(total) == Max(2, total \div 2)

\* Mutant: UNKNOWN members count as degraded.
DelayAdvisory_CountsUnknown(route) ==
  IF /\ TruthyList(route)
     /\ CountSeverity(route[1], {"MODERATE", "SEVERE", "UNKNOWN"})
          >= DelayThreshold(Len(route[1]))
  THEN <<DelayText>> ELSE <<>>

DelayAdvisory(route) ==
  IF /\ TruthyList(route)
     /\ CountSeverity(route[1], {"MODERATE", "SEVERE"}) >= DelayThreshold(Len(route[1]))
  THEN <<DelayText>> ELSE <<>>

\* Mutant: no early return on an empty text.
ActiveOn_NoEmptyTextReturn(metar, sev, t) == HardTrigger(sev) \/ SoftTrigger(t)

\* The call gets past both early returns: the text is non-empty and a
\* trigger holds on its tokens.
ActiveOn(metar, sev, t) ==
  Len(metar) > 0 /\ (HardTrigger(sev) \/ SoftTrigger(t))

Active(metar, sev) == ActiveOn(metar, sev, parse_basic_tokens(metar))

\* The call raises instead of returning: haversine_nm gets a None.
Raises(primary, metar, sev, route, t) ==
  /\ ActiveOn(metar, sev, t)
  /\ AlternatesComputed(primary, route)
  /\ \E i \in 1..Len(route[1]) :
       ReachesDistance(route[1][i]) /\ DistanceRaises(primary, route[1][i])

\* The dict the call returns, t being the tokens of the text and cands the
\* list candidates.
Decision(metar, sev, route, t, cands) ==
  IF ~ActiveOn(metar, sev, t) THEN InactiveOut
  ELSE [active               |-> TRUE,
        reason               |-> IF HardTrigger(sev) THEN ReasonHard ELSE ReasonSoft,
        risk_alerts          |-> RiskAlerts(t),
        delay_advisory       |-> DelayAdvisory(route),
        alternate_candidates |-> Shortlist(cands),
        detour_suggestions   |-> DetourSuggestions(route)]

recommend_operational_actions(primary, metar, sev, route) ==
  Decision(metar, sev, route, parse_basic_tokens(metar), RouteCandidates(primary, route))

(***************************************************************************)
(* analyze_severity: the severity classifier.                              *)
(***************************************************************************)

\* c.upper() for one ASCII character.
UpperChar(c) ==
  IF c \in LowerLetters
  THEN UpperChars[CHOOSE i \in 1..Len(LowerChars) : LowerChars[i] = c]
  ELSE c

\* Mutant: the text is not upper-cased.
Upper_AsIs(s) == s

\* metar_text.upper()
Upper(s) == [i \in 1..Len(s) |-> UpperChar(s[i])]

\* A variant that looks for sub at the start of s only.
Contains_AtStart(s, sub) == LitAt(s, 1, sub)

\* sub in s
Contains(s, sub) == \E i \in 1..(Len(s) - Len(sub) + 1) : LitAt(s, i, sub)

\* any(x in s for x in subs)
ContainsAny(s, subs) == \E k \in 1..Len(subs) : Contains(s, subs[k])

\* A variant without the volcanic ash and squall markers.
severe_indicators_Convective ==
  <<<<"T", "S">>, <<"+", "T", "S">>, <<"T", "S", "R", "A">>, <<"C", "B">>,
    <<"F", "C">>, <<"+", "G", "R">>>>

severe_indicators ==
  <<<<"T", "S">>, <<"+", "T", "S">>, <<"T", "S", "R", "A">>, <<"C", "B">>,
    <<"F", "C">>, <<"+", "G", "R">>, <<"V", "A">>, <<"S", "Q">>>>

PrecipitationMarkers ==
  <<<<"R", "A">>, <<"+", "R", "A">>, <<"-", "R", "A">>, <<"S", "N">>, <<"+", "S", "N">>,
    <<"-", "S", "N">>, <<"D", "Z">>, <<"S", "H", "R", "A">>, <<"S", "H", "S", "N">>>>

ObscurationMarkers == <<<<"B", "R">>, <<"F", "G">>, <<"H", "Z">>>>

\* Mutant: base codes through 039 count.
LowLayerAt_Through039(s, i) ==
  /\ (LitAt(s, i, <<"B", "K", "N">>) \/ LitAt(s, i, <<"O", "V", "C">>))
  /\ CharAt(s, i + 3) = "0"
  /\ CharAt(s, i + 4) \in {"0", "1", "2", "3"}
  /\ IsDigit(CharAt(s, i + 5))

\* (BKN|OVC)(00\d|01\d|02\d) matches at position i.
LowLayerAt(s, i) ==
  /\ (LitAt(s, i, <<"B", "K", "N">>) \/ LitAt(s, i, <<"O", "V", "C">>))
  /\ CharAt(s, i + 3) = "0"
  /\ CharAt(s, i + 4) \in {"0", "1", "2"}
  /\ IsDigit(CharAt(s, i + 5))

\* re.search(r'(BKN|OVC)(00\d|01\d|02\d)', text) finds a match.
LowLayerSearch(s) == \E i \in 1..Len(s) : LowLayerAt(s, i)

\* moderate_score of the upper-cased text.
ModerateScore(text) ==
    (IF ContainsAny(text, PrecipitationMarkers) THEN 1 ELSE 0)
  + (IF ContainsAny(text, ObscurationMarkers) THEN 1 ELSE 0)
  + (IF LowLayerSearch(text) THEN 1 ELSE 0)

\* Mutant: only None is tested for.
Falsy_NoneOnly(arg) == arg = <<>>

\* The falsy arguments: None and the empty string.
Falsy(arg) == arg = <<>> \/ Len(arg[1]) = 0

\* analyze_severity(metar_text), the argument optional (None or a text).
analyze_severity(arg) ==
  IF Falsy(arg) THEN "UNKNOWN"
  ELSE LET text == Upper(arg[1])
       IN  IF ContainsAny(text, severe_indicators) THEN "SEVERE"
           ELSE IF ModerateScore(text) >= 1 THEN "MODERATE"
           ELSE "CLEAR"

(***************************************************************************)
(* tokenize_metar (src/ai_analysis.py).  The dict it returns is the record *)
(* [wind, vis, wx, clouds, vv, temp, dew, alt]: wind is None or the dict   *)
(* [dir, spd, gst], dir and spd strings and gst an optional string (the    *)
(* source always stores a string, "" without a gust part); vis, temp, dew  *)
(* and alt are optional strings, vv an optional integer, wx a list of      *)
(* strings and clouds a list of pairs of strings <<cover, base code>>.     *)
(***************************************************************************)

\* (raw or "")
OrEmpty(arg) == IF arg = <<>> THEN <<>> ELSE arg[1]

\* s.strip()
Strip(s) ==
  LET inked == {i \in 1..Len(s) : ~IsSpace(s[i])}
  IN  IF inked = {} THEN <<>>
      ELSE SubSeq(s, CHOOSE i \in inked : \A j \in inked : i <= j,
                     CHOOSE i \in inked : \A j \in inked : i >= j)

\* Mutant: None is not replaced, and strip() of None raises.
TokenizeRaises_OnNone(arg) == arg = <<>>

\* The call raises: never, a None argument is replaced by "".
TokenizeRaises(arg) == FALSE

\* re.search(r"\b(\d{3})(\d{2,3})(G\d{2,3})?KT\b", s): the dict of the match
\* with gst = (m.group(3) or "").lstrip("G"), or None.
TokenWind(s, ws) ==
  LET at == Leftmost({i \in ws : WindStartsAt(s, i)})
  IN  IF at = <<>> THEN <<>>
      ELSE LET i == at[1]
               c == WindCandidates[Leftmost({k \in 1..Len(WindCandidates) :
                                               WindMatchesAt(s, i, WindCandidates[k])})[1]]
               j == i + 3 + c.sp
           IN  <<[dir |-> Slice(s, i, i + 2),
                  spd |-> Slice(s, i + 3, j - 1),
                  gst |-> <<IF c.g = 0 THEN <<>> ELSE Slice(s, j + 1, j + c.g)>>]>>

\* \d{1,2}(?:/\d{1,2})? : the ways to match it, in backtracking order.  n is
\* the number of leading digits, d the number of digits after the slash
\* (0: no fraction).
TokenVisCandidates ==
  <<[n |-> 2, d |-> 2], [n |-> 2, d |-> 1], [n |-> 2, d |-> 0],
    [n |-> 1, d |-> 2], [n |-> 1, d |-> 1], [n |-> 1, d |-> 0]>>

\* (\d{1,2}(?:/\d{1,2})?SM)\b matches at i with candidate c.
TokenVisMatchesAt(s, i, c) ==
  LET j == i + c.n
      e == IF c.d = 0 THEN j ELSE j + 1 + c.d
  IN  /\ DigitsAt(s, i, c.n)
      /\ c.d > 0 => (CharAt(s, j) = "/" /\ DigitsAt(s, j + 1, c.d))
      /\ LitAt(s, e, <<"S", "M">>)
      /\ WordBoundary(s, e + 2)

\* re.search(r"\b(\d{1,2}(?:/\d{1,2})?SM)\b", s): group(1), or None.
TokenVis(s, ws) ==
  LET hit(i) == {k \in 1..Len(TokenVisCandidates) :
                   TokenVisMatchesAt(s, i, TokenVisCandidates[k])}
      at == Leftmost({i \in ws : hit(i) # {}})
  IN  IF at = <<>> THEN <<>>
      ELSE LET c == TokenVisCandidates[Leftmost(hit(at[1]))[1]]
               e == at[1] + c.n + (IF c.d = 0 THEN 0 ELSE 1 + c.d)
           IN  <<Slice(s, at[1], e + 1)>>

WX_CODES ==
  {<<"T", "S">>, <<"D", "Z">>, <<"R", "A">>, <<"S", "N">>, <<"S", "G">>,
   <<"P", "L">>, <<"G", "R">>, <<"G", "S">>, <<"U", "P">>, <<"B", "R">>,
   <<"F", "G">>, <<"F", "U">>, <<"H", "Z">>, <<"D", "U">>, <<"S", "A">>,
   <<"S", "Q">>, <<"P", "O">>, <<"D", "S">>, <<"S", "S">>, <<"V", "A">>}

\* \s(\+|-)?(VC)?WX_CODES\b matches at position i: the joined groups, as
\* <<string>>, or <<>>.  Every code has two letters and none starts like a
\* sign or like VC, so at most one way to match exists.
TokenWxAt(s, i) ==
  LET sign == IF CharAt(s, i + 1) \in {"+", "-"} THEN 1 ELSE 0
      vc   == IF LitAt(s, i + 1 + sign, <<"V", "C">>) THEN 2 ELSE 0
      j    == i + 1 + sign + vc
  IN  IF /\ IsSpace(CharAt(s, i))
         /\ Slice(s, j, j + 1) \in WX_CODES
         /\ WordBoundary(s, j + 2)
      THEN <<Slice(s, i + 1, j + 1)>>
      ELSE <<>>

\* The values at the positions of the set at, in ascending order, of the
\* function val of positions.
RECURSIVE InOrder(_, _)
InOrder(at, val) ==
  IF at = {} THEN <<>>
  ELSE LET i == CHOOSE x \in at : \A y \in at : x <= y
       IN  <<val[i]>> \o InOrder(at \ {i}, val)

\* re.findall(...): a match holds one whitespace character, its first, so
\* the matches are those at every position where the pattern matches.
TokenWx(s) ==
  InOrder({i \in 1..Len(s) : TokenWxAt(s, i) # <<>>},
          [i \in 1..Len(s) |-> IF TokenWxAt(s, i) # <<>> THEN TokenWxAt(s, i)[1] ELSE <<>>])

CLOUD_CODES == {<<"F", "E", "W">>, <<"S", "C", "T">>, <<"B", "K", "N">>, <<"O", "V", "C">>}

\* \b(FEW|SCT|BKN|OVC)(\d{3})\b matches at the word start i.
TokenCloudAt(s, i) ==
  /\ Slice(s, i, i + 2) \in CLOUD_CODES
  /\ DigitsAt(s, i + 3, 3)
  /\ WordBoundary(s, i + 6)

\* Mutant: only the first cloud group is kept.
TokenClouds_FirstOnly(s, ws) ==
  LET at == Leftmost({i \in ws : TokenCloudAt(s, i)})
  IN  IF at = <<>> THEN <<>>
      ELSE <<<<Slice(s, at[1], at[1] + 2), Slice(s, at[1] + 3, at[1] + 5)>>>>

\* [(m.group(1), m.group(2)) for m in re.finditer(...)]
TokenClouds(s, ws) ==
  InOrder({i \in ws : TokenCloudAt(s, i)},
          [i \in 1..Len(s) |-> <<Slice(s, i, i + 2), Slice(s, i + 3, i + 5)>>])

\* \bVV(\d{3})\b matches at the word start i.
TokenVvAt(s, i) ==
  LitAt(s, i, <<"V", "V">>) /\ DigitsAt(s, i + 2, 3) /\ WordBoundary(s, i + 5)

\* int(m.group(1)) * 100 of the first match, or None.
TokenVv(s, ws) ==
  LET at == Leftmost({i \in ws : TokenVvAt(s, i)})
  IN  IF at = <<>> THEN <<>> ELSE <<ParseInt(Slice(s, at[1] + 2, at[1] + 4)) * 100>>

\* The length of M?\d{2} at position j, 0 when it does not match.
SignedPairAt(s, j) ==
  IF CharAt(s, j) = "M" /\ DigitsAt(s, j + 1, 2) THEN 3
  ELSE IF DigitsAt(s, j, 2) THEN 2
  ELSE 0

\* \s(M?\d{2})/(M?\d{2})(\s|$) matches at position i.
TokenTempAt(s, i) ==
  LET a == SignedPairAt(s, i + 1)
      b == SignedPairAt(s, i + 2 + a)
      e == i + 2 + a + b
  IN  /\ IsSpace(CharAt(s, i))
      /\ a > 0
      /\ CharAt(s, i + 1 + a) = "/"
      /\ b > 0
      /\ (IsSpace(CharAt(s, e)) \/ e = Len(s) + 1)

\* td = lambda x: ("-" + x[1:]) if x.startswith("M") else x
td(x) == IF Len(x) > 0 /\ x[1] = "M" THEN <<"-">> \o Tail(x) ELSE x

\* The pair (temp, dew) of the first match, as <<<<temp, dew>>>>, or <<>>.
TokenTempDew(s) ==
  LET at == Leftmost({i \in 1..Len(s) : TokenTempAt(s, i)})
  IN  IF at = <<>> THEN <<>>
      ELSE LET a == SignedPairAt(s, at[1] + 1)
               b == SignedPairAt(s, at[1] + 2 + a)
           IN  <<<<td(Slice(s, at[1] + 1, at[1] + a)),
                   td(Slice(s, at[1] + 2 + a, at[1] + 1 + a + b))>>>>

\* \bA(\d{4})\b matches at the word start i.
TokenAltAt(s, i) ==
  CharAt(s, i) = "A" /\ DigitsAt(s, i + 1, 4) /\ WordBoundary(s, i + 5)

\* f"{alt[:2]}.{alt[2:]} inHg" of the first match, or None.
TokenAlt(s, ws) ==
  LET at == Leftmost({i \in ws : TokenAltAt(s, i)})
  IN  IF at = <<>> THEN <<>>
      ELSE <<Slice(s, at[1] + 1, at[1] + 2) \o <<".">> \o Slice(s, at[1] + 3, at[1] + 4)
               \o <<" ", "i", "n", "H", "g">>>>

\* tokenize_metar(raw), the argument optional (None or a text).
tokenize_metar(arg) ==
  LET s  == Strip(OrEmpty(arg))
      ws == WordStarts(s)
      tt == TokenTempDew(s)
  IN  [wind   |-> TokenWind(s, ws),
       vis    |-> TokenVis(s, ws),
       wx     |-> TokenWx(s),
       clouds |-> TokenClouds(s, ws),
       vv     |-> TokenVv(s, ws),
       temp   |-> IF tt = <<>> THEN <<>> ELSE <<tt[1][1]>>,
       dew    |-> IF tt = <<>> THEN <<>> ELSE <<tt[1][2]>>,
       alt    |-> TokenAlt(s, ws)]

(***************************************************************************)
(* deterministic_summary (src/ai_analysis.py): the English summary built   *)
(* from the tokens, a text like every other.                               *)
(***************************************************************************)

\* str(n) for n >= 0.
RECURSIVE IntStr(_)
IntStr(n) ==
  IF n < 10 THEN <<DigitChars[n + 1]>>
  ELSE IntStr(n \div 10) \o <<DigitChars[(n % 10) + 1]>>

\* sep.join(parts)
RECURSIVE JoinWith(_, _)
JoinWith(parts, sep) ==
  IF Len(parts) = 0 THEN <<>>
  ELSE IF Len(parts) = 1 THEN parts[1]
  ELSE parts[1] \o sep \o JoinWith(Tail(parts), sep)

\* A string is truthy when it is not empty, an optional string when it is
\* neither None nor empty.
TruthyStr(o) == o # <<>> /\ Len(o[1]) > 0

\* [int(b)*100 for c,b in t["clouds"] if c in ("BKN","OVC")]
CeilingBases(clouds) ==
  {ParseInt(clouds[i][2]) * 100 :
     i \in {k \in 1..Len(clouds) : clouds[k][1] \in {<<"B", "K", "N">>, <<"O", "V", "C">>}}}

\* The local variable ceil: t["vv"], replaced by the lowest BKN/OVC base (or
\* None) when it is None or 0 and there are clouds.
SummaryCeil(t) ==
  IF ~Truthy(t.vv) /\ Len(t.clouds) > 0
  THEN LET bases == CeilingBases(t.clouds)
       IN  IF bases = {} THEN <<>>
           ELSE <<CHOOSE b \in bases : \A c \in bases : b <= c>>
  ELSE t.vv

IfrVisibilities ==
  {<<"1", "/", "4", "S", "M">>, <<"1", "/", "2", "S", "M">>, <<"3", "/", "4", "S", "M">>,
   <<"1", "S", "M">>, <<"2", "S", "M">>}

\* The IFR hint is given.
IfrHint(t) ==
  \/ t.vis # <<>> /\ t.vis[1] \in IfrVisibilities
  \/ SummaryCeil(t) # <<>> /\ SummaryCeil(t)[1] < 1000

IfrClause == <<"I", "F", "R", " ", "c", "o", "n", "d", "i", "t", "i", "o", "n", "s">>

VisibilityClause(t) == <<"V", "i", "s", "i", "b", "i", "l", "i", "t", "y", " ">> \o t.vis[1]

CeilingClause(ceil) == <<"C", "e", "i", "l", "i", "n", "g", " ">> \o IntStr(ceil) \o <<" ", "f", "t">>

\* A variant that prints the base code times 1000.
CloudText_BaseTimes1000(cloud) == cloud[1] \o <<" ">> \o IntStr(ParseInt(cloud[2]) * 1000) \o <<" ", "f", "t">>

\* f"{c} {int(b)*100} ft"
CloudText(cloud) == cloud[1] \o <<" ">> \o IntStr(ParseInt(cloud[2]) * 100) \o <<" ", "f", "t">>

CloudsClause(clouds) ==
  <<"C", "l", "o", "u", "d", "s", " ">> \o JoinWith([i \in 1..Len(clouds) |-> CloudText(clouds[i])], <<",", " ">>)

\* A variant that never prints the gust.
GustPart_Omitted(w) == <<>>

GustPart(w) ==
  IF TruthyStr(w.gst) THEN <<",", " ", "g", "u", "s", "t", "i", "n", "g", " ">> \o w.gst[1] \o <<" ", "k", "t">> ELSE <<>>

WindsClause(w) ==
  <<"W", "i", "n", "d", "s", " ">> \o w.dir \o <<"°", " ", "a", "t", " ">> \o w.spd \o <<" ", "k", "t">> \o GustPart(w)

WeatherClause(wx) == <<"W", "e", "a", "t", "h", "e", "r", " ">> \o JoinWith(wx, <<",", " ">>)

TempDewClause(t) ==
  <<"T", "e", "m", "p", " ">> \o t.temp[1] \o <<"°", "C", ",", " ", "d", "e", "w", " ">> \o t.dew[1] \o <<"°", "C">>

AltimeterClause(t) == <<"A", "l", "t", "i", "m", "e", "t", "e", "r", " ">> \o t.alt[1]

\* The list parts.
SummaryParts(t) ==
  LET ceil == SummaryCeil(t)
  IN     (IF IfrHint(t) THEN <<IfrClause>> ELSE <<>>)
      \o (IF TruthyStr(t.vis) THEN <<VisibilityClause(t)>> ELSE <<>>)
      \o (IF Truthy(ceil) THEN <<CeilingClause(ceil[1])>>
          ELSE IF Len(t.clouds) > 0 THEN <<CloudsClause(t.clouds)>>
          ELSE <<>>)
      \o (IF t.wind # <<>> THEN <<WindsClause(t.wind[1])>> ELSE <<>>)
      \o (IF Len(t.wx) > 0 THEN <<WeatherClause(t.wx)>> ELSE <<>>)
      \o (IF TruthyStr(t.temp) /\ TruthyStr(t.dew) THEN <<TempDewClause(t)>> ELSE <<>>)
      \o (IF TruthyStr(t.alt) THEN <<AltimeterClause(t)>> ELSE <<>>)

\* ". ".join(parts) + "."
deterministic_summary(t) == JoinWith(SummaryParts(t), <<".", " ">>) \o <<".">>

(***************************************************************************)
(* summarize_station (src/ai_analysis.py): the narrative of a generative   *)
(* provider, verified against the tokens, or the deterministic summary.    *)
(* A provider call returns None (an error) or a stripped text.             *)
(***************************************************************************)

\* _call_ai_service(prompt): the output of DeepSeek if its key is set and
\* the output is not None or empty, else that of Gemini likewise, else "".
call_ai_service(deepseek_api_key, gemini_api_key, deepseek_out, gemini_out) ==
  IF deepseek_api_key /\ TruthyStr(deepseek_out) THEN deepseek_out[1]
  ELSE IF gemini_api_key /\ TruthyStr(gemini_out) THEN gemini_out[1]
  ELSE <<>>

\* x.split()[0] for a text x that has a word.
FirstWord(x) ==
  LET start == CHOOSE i \in 1..Len(x) : ~IsSpace(x[i]) /\ \A k \in 1..(i - 1) : IsSpace(x[k])
      stop  == CHOOSE j \in start..Len(x) :
                 /\ \A k \in start..j : ~IsSpace(x[k])
                 /\ (j = Len(x) \/ IsSpace(x[j + 1]))
  IN  SubSeq(x, start, stop)

\* A variant that does not look for the gust.
WindPreserved_GustUnchecked(txt, w) ==
  /\ (Len(w.dir) > 0 => Contains(txt, w.dir))
  /\ (Len(w.spd) > 0 => Contains(txt, w.spd))

\* The checks on the wind dict w.
WindPreserved(txt, w) ==
  /\ (Len(w.dir) > 0 => Contains(txt, w.dir))
  /\ (Len(w.spd) > 0 => Contains(txt, w.spd))
  /\ (TruthyStr(w.gst) => Contains(txt, w.gst[1]))

\* _verify_text_matches_tokens(text, t).  The ceiling it computes at the end
\* decides nothing.
verify_text_matches_tokens(txt, t) ==
  IF Len(txt) = 0 THEN FALSE
  ELSE IF TruthyStr(t.vis) /\ ~Contains(txt, t.vis[1]) THEN FALSE
  ELSE IF TruthyStr(t.alt) /\ ~Contains(txt, FirstWord(t.alt[1])) THEN FALSE
  ELSE IF t.wind # <<>> /\ ~WindPreserved(txt, t.wind[1]) THEN FALSE
  ELSE TRUE

\* The text summarize_station returns for the provider's text txt.
summarize_station(txt, t) ==
  IF ~verify_text_matches_tokens(txt, t) THEN deterministic_summary(t) ELSE txt

(***************************************************************************)
(* Inputs.  A METAR text is assembled from whitespace-separated groups:    *)
(* station, time, an optional wind group, an optional visibility group,    *)
(* up to MaxLayers sky groups, temperature and altimeter.                  *)
(***************************************************************************)

\* The number of sky groups (cloud layers, vertical visibility) of a text.
MaxLayers == 2

\* The length of the routes enumerated in full.
MaxRoute == 3

Severities == {"CLEAR", "MODERATE", "SEVERE", "UNKNOWN"}

\* The groups joined by single spaces.
RECURSIVE Join(_)
Join(groups) ==
  IF Len(groups) = 0 THEN <<>>
  ELSE IF Len(groups) = 1 THEN groups[1]
  ELSE groups[1] \o <<" ">> \o Join(Tail(groups))

Station == <<"K", "T", "U", "S">>

ObsTime == <<"2", "6", "1", "1", "5", "2", "Z">>

TempDew == <<"2", "8", "/", "2", "2">>

Altimeter == <<"A", "2", "9", "9", "2">>

\* Wind groups: gust below and above 30 kt, no gust, variable direction.
WindGroups ==
  {<<"0", "9", "0", "1", "5", "G", "2", "5", "K", "T">>,
   <<"2", "7", "0", "1", "5", "G", "3", "5", "K", "T">>,
   <<"2", "7", "0", "1", "0", "K", "T">>,
   <<"V", "R", "B", "1", "5", "G", "3", "5", "K", "T">>}

\* Visibility groups: whole miles, fractions, a mixed number (two groups).
VisGroups ==
  {<<<<"1", "0", "S", "M">>>>,
   <<<<"3", "S", "M">>>>,
   <<<<"1", "S", "M">>>>,
   <<<<"1", "/", "2", "S", "M">>>>,
   <<<<"1", "/", "4", "S", "M">>>>,
   <<<<"3", "/", "4", "S", "M">>>>,
   <<<<"1">>, <<"1", "/", "2", "S", "M">>>>}

\* Sky groups: cloud layers and a vertical visibility.
SkyGroups ==
  {<<"S", "C", "T", "0", "3", "0">>,
   <<"B", "K", "N", "0", "0", "8">>,
   <<"O", "V", "C", "0", "1", "5">>,
   <<"V", "V", "0", "0", "2">>}

\* The sequences over S of length at most n.
RECURSIVE SeqsUpTo(_, _)
SeqsUpTo(S, n) ==
  IF n = 0 THEN {<<>>}
  ELSE LET shorter == SeqsUpTo(S, n - 1)
       IN  shorter \cup {Append(q, x) : q \in {r \in shorter : Len(r) = n - 1}, x \in S}

\* The scenario report of station KTUS.
ScenarioText ==
  Join(<<Station, ObsTime, <<"0", "9", "0", "1", "5", "G", "2", "5", "K", "T">>, <<"1", "0", "S", "M">>, <<"T", "S">>, <<"S", "C", "T", "0", "3", "0">>, <<"B", "K", "N", "0", "6", "0">>, <<"C", "B", "1", "0", "0">>,
         TempDew, Altimeter>>)

\* A report with low visibility and ceiling and no severe marker.
MarginalText ==
  Join(<<Station, ObsTime, <<"2", "7", "0", "1", "0", "K", "T">>, <<"1", "S", "M">>, <<"B", "K", "N", "0", "0", "8">>, TempDew, Altimeter>>)

\* A fair-weather report.
FairText ==
  Join(<<Station, ObsTime, <<"2", "7", "0", "1", "0", "K", "T">>, <<"1", "0", "S", "M">>, <<"S", "C", "T", "0", "3", "0">>, TempDew, Altimeter>>)

AssembledTexts ==
  {Join(<<Station, ObsTime>> \o w \o v \o sky \o <<TempDew, Altimeter>>) :
     w \in {<<>>} \cup {<<g>> : g \in WindGroups},
     v \in {<<>>} \cup VisGroups,
     sky \in SeqsUpTo(SkyGroups, MaxLayers)}

MetarTexts == AssembledTexts \cup {ScenarioText, <<>>}

\* Airport records as get_airport_info returns them (coordinates in 1/10000
\* degree), the fallback record without coordinates, and a record on the
\* prime meridian.
Airport(name, lat, lon) == [name |-> name, latitude |-> lat, longitude |-> lon]

KTUS == Airport("Tucson International Airport", <<321161>>, <<-1109410>>)

KPHX == Airport("Phoenix Sky Harbor International Airport", <<334343>>, <<-1120116>>)

KYUM == Airport("Yuma MCAS/Yuma International Airport", <<326566>>, <<-1146060>>)

KFLG == Airport("Flagstaff Pulliam Airport", <<351385>>, <<-1116712>>)

KELP == Airport("El Paso International Airport", <<318072>>, <<-1063776>>)

KABQ == Airport("Albuquerque International Sunport", <<350402>>, <<-1066092>>)

KSAN == Airport("San Diego International Airport", <<327336>>, <<-1171897>>)

KLAX == Airport("Los Angeles International Airport", <<339425>>, <<-1184081>>)

EGLL == Airport("London Heathrow Airport", <<514706>>, <<-4619>>)

MeridianField == Airport("Meridian Field", <<514775>>, <<0>>)

FallbackKTUS == Airport("Airport KTUS", <<>>, <<>>)

FallbackXXXX == Airport("Airport XXXX", <<>>, <<>>)

Leg(code, info, sev) == [code |-> code, info |-> info, severity |-> sev]

\* The members of the routes enumerated in full.
LegPool ==
  {Leg("KTUS", KTUS, "MODERATE"),
   Leg("KPHX", KPHX, "CLEAR"),
   Leg("KYUM", KYUM, "UNKNOWN"),
   Leg("KABQ", KABQ, "SEVERE"),
   Leg("KLAX", KLAX, "CLEAR"),
   Leg("XXXX", FallbackXXXX, "MODERATE"),
   Leg("ZZZZ", MeridianField, "CLEAR")}

\* Six members within range of KTUS, none SEVERE.
LongLegs ==
  <<Leg("KTUS", KTUS, "MODERATE"),
    Leg("KPHX", KPHX, "CLEAR"),
    Leg("KFLG", KFLG, "MODERATE"),
    Leg("KYUM", KYUM, "CLEAR"),
    Leg("KELP", KELP, "CLEAR"),
    Leg("KSAN", KSAN, "UNKNOWN")>>

\* The orderings of the sequence legs.
Orderings(legs) ==
  {[i \in 1..Len(legs) |-> legs[f[i]]] :
     f \in {g \in [1..Len(legs) -> 1..Len(legs)] :
              \A i, j \in 1..Len(legs) : i # j => g[i] # g[j]}}

\* A route with SEVERE members, most of it degraded.
DegradedRoute ==
  <<Leg("KTUS", KTUS, "SEVERE"), Leg("KPHX", KPHX, "SEVERE"), Leg("KELP", KELP, "MODERATE")>>

\* A route of five members, two of them degraded.
OddRoute ==
  <<Leg("KTUS", KTUS, "MODERATE"), Leg("KPHX", KPHX, "CLEAR"), Leg("KFLG", KFLG, "MODERATE"),
    Leg("KYUM", KYUM, "CLEAR"), Leg("KELP", KELP, "CLEAR")>>

\* A route from KTUS, itself MODERATE, with five CLEAR members in range.
CrowdedRoute ==
  <<Leg("KTUS", KTUS, "MODERATE"), Leg("KPHX", KPHX, "CLEAR"), Leg("KFLG", KFLG, "CLEAR"),
    Leg("KYUM", KYUM, "CLEAR"), Leg("KELP", KELP, "CLEAR"), Leg("KSAN", KSAN, "CLEAR")>>

\* Routes: None, or a list.
TextSpecRoutes == {<<>>, <<DegradedRoute>>}

Routes ==
  {<<>>} \cup {<<r>> : r \in SeqsUpTo(LegPool, MaxRoute) \cup Orderings(LongLegs) \cup {OddRoute, CrowdedRoute}}

Primaries == {KTUS, FallbackKTUS, EGLL, MeridianField}

\* The (text, severity) pairs of the route specification: active by the
\* hard trigger, active by a soft trigger, inactive.
Situations ==
  {<<ScenarioText, "SEVERE">>, <<MarginalText, "MODERATE">>, <<FairText, "CLEAR">>}

\* The number of weather and sky groups of a text given to the classifier.
MaxWx == 2

\* Weather and sky groups for the classifier: severe markers (upper, lower
\* and mixed case), moderate markers, layers below and from 3000 ft, and
\* groups without any marker.
WxPool ==
  {<<"T", "S">>, <<"+", "T", "S", "R", "A">>, <<"t", "s">>, <<"V", "C", "F", "C">>,
   <<"+", "G", "R">>, <<"V", "A">>, <<"S", "q">>, <<"B", "K", "N", "0", "3", "0", "C", "B">>,
   <<"-", "R", "A">>, <<"S", "N">>, <<"D", "Z">>, <<"-", "S", "H", "S", "N">>,
   <<"B", "R">>, <<"f", "g">>, <<"H", "Z">>,
   <<"B", "K", "N", "0", "2", "5">>, <<"O", "V", "C", "0", "2", "9">>,
   <<"B", "K", "N", "0", "3", "0">>, <<"o", "v", "c", "0", "0", "5">>,
   <<"S", "C", "T", "0", "1", "0">>, <<"C", "L", "R">>, <<"1", "0", "S", "M">>}

ClassifierTexts ==
  {Join(<<Station, ObsTime, <<"2", "7", "0", "1", "0", "K", "T">>>> \o wx \o <<TempDew, Altimeter>>) :
     wx \in SeqsUpTo(WxPool, MaxWx)}

\* "KXXX 251200Z 10008KT 10SM CLR 25/10 A3000"
ClearExampleText ==
  Join(<<<<"K", "X", "X", "X">>, <<"2", "5", "1", "2", "0", "0", "Z">>,
         <<"1", "0", "0", "0", "8", "K", "T">>, <<"1", "0", "S", "M">>, <<"C", "L", "R">>,
         <<"2", "5", "/", "1", "0">>, <<"A", "3", "0", "0", "0">>>>)

\* The arguments of the classifier: None, the empty text, a blank, texts.
SeverityInputs ==
  {<<>>, <<<<>>>>, <<<<" ">>>>} \cup {<<t>> : t \in ClassifierTexts \cup {ClearExampleText}}

\* Groups for the tokenizer: wind (one group with a gust, two groups, a
\* variable direction), visibility, weather, sky (layers, a layer with a
\* cloud type, vertical visibilities of 0 and 200 ft), temperature, altimeter.
TokenWinds ==
  {<<>>, <<<<"2", "7", "0", "1", "5", "G", "2", "5", "K", "T">>>>,
   <<<<"2", "7", "0", "1", "0", "K", "T">>, <<"0", "9", "0", "1", "2", "G", "2", "0", "K", "T">>>>,
   <<<<"V", "R", "B", "0", "5", "K", "T">>>>}

TokenSky ==
  {<<"S", "C", "T", "0", "3", "0">>, <<"B", "K", "N", "0", "0", "8">>, <<"O", "V", "C", "0", "1", "5">>,
   <<"B", "K", "N", "0", "3", "0", "C", "B">>, <<"V", "V", "0", "0", "0">>, <<"V", "V", "0", "0", "2">>}

TokenizerTexts ==
  {Join(<<Station, ObsTime>> \o w \o v \o wx \o sky \o tdew \o alt) :
     w \in TokenWinds,
     v \in {<<>>, <<<<"1", "/", "2", "S", "M">>>>},
     wx \in {<<>>, <<<<"-", "R", "A">>, <<"T", "S">>>>},
     sky \in SeqsUpTo(TokenSky, MaxLayers),
     tdew \in {<<>>, <<<<"M", "0", "5", "/", "M", "1", "0">>>>},
     alt \in {<<>>, <<Altimeter>>}}

\* The arguments of the tokenizer: None, the empty text, a blank, a text
\* without any group the tokenizer knows, a padded text, texts.
TokenizerInputs ==
  {<<>>, <<<<>>>>, <<<<" ", " ">>>>, <<<<"X", "Y", "Z", " ", "1", "2", "3">>>>,
   <<<<" ", " ", "K", "T", "U", "S", " ", "1", "0", "S", "M", " ", " ">>>>}
  \cup {<<t>> : t \in TokenizerTexts}

\* Texts for summarize_station: with and without a wind (with a gust,
\* without, variable), a visibility, a ceiling and an altimeter.
StationTexts ==
  {Join(<<Station, ObsTime>> \o w \o v \o sky \o alt) :
     w \in TokenWinds,
     v \in {<<>>, <<<<"1", "/", "2", "S", "M">>>>},
     sky \in {<<>>, <<<<"B", "K", "N", "0", "0", "8">>>>},
     alt \in {<<>>, <<Altimeter>>}}

StationInputs == {<<>>, <<<<>>>>} \cup {<<t>> : t \in StationTexts}

\* "Vis 1/2SM, wind 270 at 15 kt gusting 25 kt, QNH 29.92"
FaithfulNarrative ==
  <<"V", "i", "s", " ", "1", "/", "2", "S", "M", ",", " ", "w", "i", "n", "d", " ", "2", "7", "0", " ", "a", "t", " ", "1", "5", " ", "k", "t", " ", "g", "u", "s", "t", "i", "n", "g", " ", "2", "5", " ", "k", "t", ",", " ", "Q", "N", "H", " ", "2", "9", ".", "9", "2">>

\* The same without its gust.
GustlessNarrative ==
  <<"V", "i", "s", " ", "1", "/", "2", "S", "M", ",", " ", "w", "i", "n", "d", " ", "2", "7", "0", " ", "a", "t", " ", "1", "5", " ", "k", "t", ",", " ", "Q", "N", "H", " ", "2", "9", ".", "9", "2">>

\* The same with a ceiling and a temperature no report has.
InventiveNarrative ==
  FaithfulNarrative \o <<",", " ", "c", "e", "i", "l", "i", "n", "g", " ", "4", "5", "0", "0", " ", "f", "t", ",", " ", "t", "e", "m", "p", " ", "3", "1">>

\* "Fair weather"
PlainNarrative == <<"F", "a", "i", "r", " ", "w", "e", "a", "t", "h", "e", "r">>

\* What a provider call returns: None, or a text (stripped, maybe empty).
ProviderOutputs ==
  {<<>>, <<<<>>>>, <<FaithfulNarrative>>, <<GustlessNarrative>>, <<InventiveNarrative>>,
   <<PlainNarrative>>}

\* What is put before and after a text to extend it: nothing, groups, and
\* fragments that make a marker across the seam.
Prefixes ==
  {<<>>, <<"K", "T", "U", "S", " ", "2", "6", "1", "1", "5", "2", "Z", " ">>, <<"-", "R", "A", " ">>, <<"B", "K", "N", "0">>}

Suffixes ==
  {<<>>, <<" ", "A", "2", "9", "9", "2">>, <<"2", "5">>, <<" ", "T", "S">>}

\* The extended texts p + x + s, x a weather or sky group.
ExtensionInputs == {<<p \o x \o s>> : p \in Prefixes, x \in WxPool, s \in Suffixes}

\* Texts given to both the tokenizer and the classifier: those of the
\* classifier, and texts with a prefixed hazard code.
AgreementInputs ==
  SeverityInputs
  \cup {<<Join(<<Station, ObsTime, wx, Altimeter>>)>> :
          wx \in {<<"V", "C", "T", "S">>, <<"+", "S", "Q">>, <<"V", "C", "F", "G">>, <<"-", "D", "Z">>}}

\* The points between which distances are measured.
DistancePoints == {KTUS, KPHX, KYUM, KFLG, KELP, KABQ, KSAN, KLAX, EGLL, MeridianField}

\* The arguments lat1, lon1, lat2, lon2 of haversine_nm.
DistanceInputs ==
  {<<<<a.latitude[1], a.longitude[1], b.latitude[1], b.longitude[1]>>>> :
     a \in DistancePoints, b \in DistancePoints}

(***************************************************************************)
(* The lookup caches of src/weather_apis.py.  WeatherAPIManager and         *)
(* AirportDataManager each keep a dict cache of entries with the time they  *)
(* were written; cache[m] is the entry of one key of manager m, None or its *)
(* timestamp.  Times are in seconds.                                        *)
(***************************************************************************)

\* The days the clock runs through.
MaxDays == 2

SecondsPerDay == 86400

\* cache_duration of each manager.
cache_duration == [weather |-> 300, airport |-> 86400]

Managers == {"weather", "airport"}

\* The times at which utcnow is read: a few offsets into each day.
ClockOffsets == {0, 200, 400}

ClockTimes == {d * SecondsPerDay + o : d \in 0..MaxDays, o \in ClockOffsets}

\* timedelta.seconds of a difference d >= 0: the seconds within the day, the
\* whole days being the separate attribute days.
TimedeltaSeconds(d) == d % SecondsPerDay

\* _is_cached_valid(key) of manager m at the time t, the cache being c.
is_cached_valid(c, m, t) ==
  IF c[m] = <<>> THEN FALSE
  ELSE TimedeltaSeconds(t - c[m][1]) < cache_duration[m]

\* _cache_data(key, data) of manager m at the time t.
cache_data(c, m, t) == [c EXCEPT ![m] = <<t>>]

\* No entry, no lookup made.
NoLookup ==
  /\ now = 0
  /\ cache = [m \in Managers |-> <<>>]
  /\ lookup = <<>>

(***************************************************************************)
(* The state machine: a call of recommend_operational_actions with the     *)
(* arguments of the state, which returns the dict out or raises.           *)
(***************************************************************************)
Init ==
  /\ primary_info = KTUS
  /\ metar_text \in MetarTexts
  /\ severity \in Severities
  /\ all_airports_in_route \in TextSpecRoutes
  /\ tokens = <<>>
  /\ candidates = <<>>
  /\ out = InactiveOut
  /\ pc = "called"
  /\ raw = <<>>
  /\ ret = <<>>
  /\ summary = <<>>
  /\ narrative = <<>>
  /\ NoLookup

InitRoute ==
  /\ primary_info \in Primaries
  /\ \E sit \in Situations : metar_text = sit[1] /\ severity = sit[2]
  /\ all_airports_in_route \in Routes
  /\ tokens = <<>>
  /\ candidates = <<>>
  /\ out = InactiveOut
  /\ pc = "called"
  /\ raw = <<>>
  /\ ret = <<>>
  /\ summary = <<>>
  /\ narrative = <<>>
  /\ NoLookup

Recommend ==
  /\ pc = "called"
  /\ LET t == parse_basic_tokens(metar_text)
         cands == IF ActiveOn(metar_text, severity, t)
                  THEN RouteCandidates(primary_info, all_airports_in_route)
                  ELSE <<>>
     IN  /\ tokens' = IF Len(metar_text) = 0 THEN <<>> ELSE <<t>>
         /\ IF Raises(primary_info, metar_text, severity, all_airports_in_route, t)
            THEN pc' = "raised" /\ candidates' = candidates /\ out' = out
            ELSE /\ pc' = "returned"
                 /\ candidates' = cands
                 /\ out' = Decision(metar_text, severity, all_airports_in_route, t, cands)
  /\ UNCHANGED <<primary_info, metar_text, severity, all_airports_in_route, raw, ret, summary,
               narrative, now, cache, lookup>>

Next == Recommend

Spec == Init /\ [][Next]_vars

SpecRoute == InitRoute /\ [][Next]_vars

\* The variables of a call of recommend_operational_actions, at rest.
NoDecisionCall ==
  /\ primary_info = KTUS
  /\ metar_text = <<>>
  /\ severity = "UNKNOWN"
  /\ all_airports_in_route = <<>>
  /\ tokens = <<>>
  /\ candidates = <<>>
  /\ out = InactiveOut

(***************************************************************************)
(* A call of analyze_severity with the argument raw.                       *)
(***************************************************************************)
InitSeverity ==
  /\ NoDecisionCall
  /\ raw \in SeverityInputs
  /\ ret = <<>>
  /\ summary = <<>>
  /\ narrative = <<>>
  /\ NoLookup
  /\ pc = "called"

AnalyzeSeverity ==
  /\ pc = "called"
  /\ ret' = <<analyze_severity(raw)>>
  /\ pc' = "returned"
  /\ UNCHANGED <<primary_info, metar_text, severity, all_airports_in_route,
                 tokens, candidates, out, raw, summary, narrative, now, cache, lookup>>

NextSeverity == AnalyzeSeverity

SpecSeverity == InitSeverity /\ [][NextSeverity]_vars

\* The calls of analyze_severity with an extended text.
InitExtension ==
  /\ NoDecisionCall
  /\ raw \in ExtensionInputs
  /\ ret = <<>>
  /\ summary = <<>>
  /\ narrative = <<>>
  /\ NoLookup
  /\ pc = "called"

SpecExtension == InitExtension /\ [][NextSeverity]_vars

(***************************************************************************)
(* The deterministic summary of a text: tokenize_metar, then               *)
(* deterministic_summary on the tokens, as get_english_summary and         *)
(* summarize_station call them.                                            *)
(***************************************************************************)
InitSummary ==
  /\ NoDecisionCall
  /\ raw \in TokenizerInputs
  /\ ret = <<>>
  /\ summary = <<>>
  /\ narrative = <<>>
  /\ NoLookup
  /\ pc = "called"

Tokenize ==
  /\ pc = "called"
  /\ IF TokenizeRaises(raw)
     THEN pc' = "raised" /\ ret' = ret
     ELSE pc' = "tokenized" /\ ret' = <<tokenize_metar(raw)>>
  /\ UNCHANGED <<primary_info, metar_text, severity, all_airports_in_route,
                 tokens, candidates, out, raw, summary, narrative, now, cache, lookup>>

Summarize ==
  /\ pc = "tokenized"
  /\ summary' = <<deterministic_summary(ret[1])>>
  /\ pc' = "summarized"
  /\ UNCHANGED <<primary_info, metar_text, severity, all_airports_in_route,
                 tokens, candidates, out, raw, ret, narrative, now, cache, lookup>>

NextSummary == Tokenize \/ Summarize

SpecSummary == InitSummary /\ [][NextSummary]_vars

(***************************************************************************)
(* A report given to both the tokenizer and the classifier, as analyze_route *)
(* does for each airport: severity = analyze_severity(metar_text), and the   *)
(* tokens of the same text for its summary.                                  *)
(***************************************************************************)
InitAgreement ==
  /\ NoDecisionCall
  /\ raw \in AgreementInputs
  /\ ret = <<>>
  /\ summary = <<>>
  /\ narrative = <<>>
  /\ NoLookup
  /\ pc = "called"

Classify ==
  /\ pc = "tokenized"
  /\ severity' = analyze_severity(raw)
  /\ pc' = "classified"
  /\ UNCHANGED <<primary_info, metar_text, all_airports_in_route,
                 tokens, candidates, out, raw, ret, summary, narrative, now, cache, lookup>>

NextAgreement == Tokenize \/ Classify

SpecAgreement == InitAgreement /\ [][NextAgreement]_vars

(***************************************************************************)
(* A call of summarize_station with the argument raw: the tokens, the call *)
(* of the provider, the verification and the text returned (summary).      *)
(***************************************************************************)
InitStation ==
  /\ NoDecisionCall
  /\ raw \in StationInputs
  /\ ret = <<>>
  /\ summary = <<>>
  /\ narrative = <<>>
  /\ NoLookup
  /\ pc = "called"

\* text = self._call_ai_service(prompt, max_tokens=160) or ""
CallAiService ==
  /\ pc = "tokenized"
  /\ \E deepseek_api_key \in BOOLEAN, gemini_api_key \in BOOLEAN,
        deepseek_out \in ProviderOutputs, gemini_out \in ProviderOutputs :
       narrative' = <<call_ai_service(deepseek_api_key, gemini_api_key, deepseek_out, gemini_out)>>
  /\ pc' = "generated"
  /\ UNCHANGED <<primary_info, metar_text, severity, all_airports_in_route,
                 tokens, candidates, out, raw, ret, summary, now, cache, lookup>>

\* The verification, the fallback and the return.
VerifyOrFallback ==
  /\ pc = "generated"
  /\ summary' = <<summarize_station(narrative[1], ret[1])>>
  /\ pc' = "returned"
  /\ UNCHANGED <<primary_info, metar_text, severity, all_airports_in_route,
                 tokens, candidates, out, raw, ret, narrative, now, cache, lookup>>

NextStation == Tokenize \/ CallAiService \/ VerifyOrFallback

SpecStation == InitStation /\ [][NextStation]_vars

(***************************************************************************)
(* A call of haversine_nm with the arguments raw; ret is in 1/100 NM.      *)
(***************************************************************************)
InitDistance ==
  /\ NoDecisionCall
  /\ raw \in DistanceInputs
  /\ ret = <<>>
  /\ summary = <<>>
  /\ narrative = <<>>
  /\ NoLookup
  /\ pc = "called"

Haversine ==
  /\ pc = "called"
  /\ ret' = <<haversine_nm(raw[1][1], raw[1][2], raw[1][3], raw[1][4])>>
  /\ pc' = "returned"
  /\ UNCHANGED <<primary_info, metar_text, severity, all_airports_in_route,
                 tokens, candidates, out, raw, summary, narrative, now, cache, lookup>>

NextDistance == Haversine

SpecDistance == InitDistance /\ [][NextDistance]_vars

(***************************************************************************)
(* The lookups of the two managers as time passes.  lookup records the     *)
(* last lookup: its manager, whether the cached data was returned, and the *)
(* age of the entry at that time (-1 without an entry).                    *)
(***************************************************************************)
InitCache ==
  /\ NoDecisionCall
  /\ raw = <<>>
  /\ ret = <<>>
  /\ summary = <<>>
  /\ narrative = <<>>
  /\ NoLookup
  /\ pc = "idle"

\* Time passes.
Tick ==
  /\ pc = "idle"
  /\ \E t \in ClockTimes : t > now /\ now' = t
  /\ UNCHANGED <<primary_info, metar_text, severity, all_airports_in_route,
                 tokens, candidates, out, pc, raw, ret, summary, narrative, cache, lookup>>

\* The record of a lookup of manager m.
Lookup(m, hit) ==
  <<[manager |-> m, cached |-> hit,
     age |-> IF cache[m] = <<>> THEN -1 ELSE now - cache[m][1]]>>

\* get_metar_data(icao): the cached data if the entry is valid; otherwise
\* the sources are tried, and the result is cached if one of them succeeded.
get_metar_data ==
  /\ pc = "idle"
  /\ IF is_cached_valid(cache, "weather", now)
     THEN lookup' = Lookup("weather", TRUE) /\ cache' = cache
     ELSE /\ lookup' = Lookup("weather", FALSE)
          /\ \E success \in BOOLEAN :
               cache' = IF success THEN cache_data(cache, "weather", now) ELSE cache
  /\ UNCHANGED <<primary_info, metar_text, severity, all_airports_in_route,
                 tokens, candidates, out, pc, raw, ret, summary, narrative, now>>

\* get_airport_info(code): the cached data if the entry is valid; otherwise
\* the info is fetched (or the fallback made) and cached.
get_airport_info ==
  /\ pc = "idle"
  /\ IF is_cached_valid(cache, "airport", now)
     THEN lookup' = Lookup("airport", TRUE) /\ cache' = cache
     ELSE lookup' = Lookup("airport", FALSE) /\ cache' = cache_data(cache, "airport", now)
  /\ UNCHANGED <<primary_info, metar_text, severity, all_airports_in_route,
                 tokens, candidates, out, pc, raw, ret, summary, narrative, now>>

NextCache == Tick \/ get_metar_data \/ get_airport_info

SpecCache == InitCache /\ [][NextCache]_vars

(***************************************************************************)
(* What a report denotes, read group by group as a METAR is read: the      *)
(* reference the claims about parse_basic_tokens are stated against.       *)
(***************************************************************************)

\* The whitespace-separated groups of a text.
RECURSIVE GroupsFrom(_, _)
GroupsFrom(s, i) ==
  IF i > Len(s) THEN <<>>
  ELSE IF s[i] = " " THEN GroupsFrom(s, i + 1)
  ELSE LET e == CHOOSE j \in i..Len(s) :
                  /\ \A k \in i..j : s[k] # " "
                  /\ (j = Len(s) \/ s[j + 1] = " ")
       IN  <<SubSeq(s, i, e)>> \o GroupsFrom(s, e + 1)

Groups(s) == GroupsFrom(s, 1)

AllDigits(g) == Len(g) > 0 /\ \A k \in 1..Len(g) : IsDigit(g[k])

EndsWith(g, suffix) ==
  Len(g) >= Len(suffix) /\ SubSeq(g, Len(g) - Len(suffix) + 1, Len(g)) = suffix

\* g is a visibility group: N SM or N/D SM.
IsVisGroup(g) ==
  /\ EndsWith(g, <<"S", "M">>)
  /\ LET body == SubSeq(g, 1, Len(g) - 2)
     IN  \/ AllDigits(body)
         \/ \E k \in 2..(Len(body) - 1) :
              /\ body[k] = "/"
              /\ AllDigits(SubSeq(body, 1, k - 1))
              /\ AllDigits(SubSeq(body, k + 1, Len(body)))

\* The visibility the report denotes, as an optional rational: N, N/D, or
\* W N/D when a whole-number group W precedes the fraction.
ReportVisibility(s) ==
  LET gs == Groups(s)
      at == Leftmost({i \in 1..Len(gs) : IsVisGroup(gs[i])})
  IN  IF at = <<>> THEN <<>>
      ELSE LET g     == gs[at[1]]
               body  == SubSeq(g, 1, Len(g) - 2)
               slash == Leftmost({k \in 1..Len(body) : body[k] = "/"})
           IN  IF slash = <<>> THEN <<[num |-> ParseInt(body), den |-> 1]>>
               ELSE LET n == ParseInt(SubSeq(body, 1, slash[1] - 1))
                        d == ParseInt(SubSeq(body, slash[1] + 1, Len(body)))
                        w == IF at[1] > 1 /\ AllDigits(gs[at[1] - 1])
                             THEN ParseInt(gs[at[1] - 1]) ELSE 0
                    IN  IF d = 0 THEN <<>> ELSE <<[num |-> w * d + n, den |-> d]>>

\* The height in ft of a group cov NNN, for cov one of the prefixes.
LayerBase(g, prefixes) ==
  IF \E pre \in prefixes :
       /\ Len(g) = Len(pre) + 3
       /\ SubSeq(g, 1, Len(pre)) = pre
       /\ AllDigits(SubSeq(g, Len(pre) + 1, Len(g)))
  THEN <<ParseInt(SubSeq(g, Len(g) - 2, Len(g))) * 100>>
  ELSE <<>>

\* The ceiling the report denotes: the vertical visibility when the report
\* has one, otherwise the lowest BKN/OVC base.
ReportCeiling(s) ==
  LET gs     == Groups(s)
      vv     == {LayerBase(gs[i], {<<"V", "V">>})[1] :
                   i \in {k \in 1..Len(gs) : LayerBase(gs[k], {<<"V", "V">>}) # <<>>}}
      layers == {<<"B", "K", "N">>, <<"O", "V", "C">>}
      bases  == {LayerBase(gs[i], layers)[1] :
                   i \in {k \in 1..Len(gs) : LayerBase(gs[k], layers) # <<>>}}
      Least(S) == CHOOSE x \in S : \A y \in S : x <= y
  IN  IF vv # {} THEN <<Least(vv)>>
      ELSE IF bases # {} THEN <<Least(bases)>>
      ELSE <<>>

\* The gust of a wind group (DDD|VRB) SS G GG KT, as an optional integer.
GroupGust(g) ==
  LET hits == {c \in {<<sp, gl>> : sp \in 2..3, gl \in 2..3} :
                 /\ Len(g) = 3 + c[1] + 1 + c[2] + 2
                 /\ (AllDigits(SubSeq(g, 1, 3)) \/ SubSeq(g, 1, 3) = <<"V", "R", "B">>)
                 /\ AllDigits(SubSeq(g, 4, 3 + c[1]))
                 /\ g[4 + c[1]] = "G"
                 /\ AllDigits(SubSeq(g, 5 + c[1], 4 + c[1] + c[2]))
                 /\ EndsWith(g, <<"K", "T">>)}
  IN  IF hits = {} THEN <<>>
      ELSE LET c == CHOOSE h \in hits : TRUE
           IN  <<ParseInt(SubSeq(g, 5 + c[1], 4 + c[1] + c[2]))>>

\* The gust the report's wind group carries.
ReportGust(s) ==
  LET gs == Groups(s)
      at == Leftmost({i \in 1..Len(gs) : GroupGust(gs[i]) # <<>>})
  IN  IF at = <<>> THEN <<>> ELSE GroupGust(gs[at[1]])

\* The alerts of out of a kind.
AlertsOf(kind) == SelectSeq(out.risk_alerts, LAMBDA a : a.kind = kind)

(***************************************************************************)
(* Claims.  The trigger and alert conditions are restated here on the      *)
(* local variable tokens of the call.                                      *)
(***************************************************************************)
TokensVisAtMost(limit) ==
  /\ tokens # <<>>
  /\ tokens[1].vis_sm # <<>>
  /\ tokens[1].vis_sm[1].num <= limit * tokens[1].vis_sm[1].den

TokensCeilBelow(limit) ==
  tokens # <<>> /\ tokens[1].ceil_ft # <<>> /\ tokens[1].ceil_ft[1] < limit

TokensGustAtLeast(limit) ==
  tokens # <<>> /\ tokens[1].gust # <<>> /\ tokens[1].gust[1] >= limit

TokensSoft == TokensVisAtMost(3) \/ TokensCeilBelow(1000) \/ TokensGustAtLeast(30)

RouteLegs == IF all_airports_in_route = <<>> THEN <<>> ELSE all_airports_in_route[1]

\* C1: the call returns the inactive result (active false, reason empty, no
\* alerts, no alternates, no detour, delay_advisory None) whenever the text is
\* empty, or the severity is not SEVERE and no soft trigger holds (visibility
\* <= 3 SM, ceiling < 1000 ft, gust >= 30 kt, on the tokens of the text);
\* whatever the route.
C1_InactiveResult ==
  (pc = "returned"
     /\ (Len(metar_text) = 0 \/ (severity # "SEVERE" /\ ~TokensSoft)))
  => /\ out.active = FALSE
     /\ out.reason = ""
     /\ out.risk_alerts = <<>>
     /\ out.alternate_candidates = <<>>
     /\ out.detour_suggestions = <<>>
     /\ out.delay_advisory = <<>>

\* A call with a non-empty text, no trigger and a route of SEVERE and mostly
\* degraded members has returned the inactive result.
C1_Witness ==
  /\ pc = "returned"
  /\ Len(metar_text) > 0
  /\ severity = "MODERATE"
  /\ ~TokensSoft
  /\ all_airports_in_route = <<DegradedRoute>>
  /\ out.active = FALSE
  /\ out.detour_suggestions = <<>>

\* C2: a call with a non-empty text and severity SEVERE returns active with
\* the reason "SEVERE conditions"; an active result for any other severity has
\* the reason "Marginal visibility/ceiling or strong gusts".
C2_Reason ==
  /\ (pc # "called" /\ Len(metar_text) > 0 /\ severity = "SEVERE")
       => (pc = "returned" /\ out.active /\ out.reason = "SEVERE conditions")
  /\ (pc = "returned" /\ out.active /\ severity # "SEVERE")
       => out.reason = "Marginal visibility/ceiling or strong gusts"

\* A SEVERE call without any soft trigger has returned active.
C2_Witness ==
  /\ pc = "returned"
  /\ severity = "SEVERE"
  /\ ~TokensSoft
  /\ out.active
  /\ out.reason = "SEVERE conditions"

\* The scenario call: primary KTUS at (32.1161, -110.9410), the scenario
\* report, severity SEVERE.
C3_ScenarioReturned ==
  /\ pc = "returned"
  /\ primary_info = KTUS
  /\ metar_text = ScenarioText
  /\ severity = "SEVERE"

\* C3 as stated: the scenario call returns active, reason "SEVERE conditions",
\* with the gust alert "Gusts 25 kt" and no visibility or ceiling alert.
C3_ScenarioWithGustAlert ==
  C3_ScenarioReturned
  => /\ out.active
     /\ out.reason = "SEVERE conditions"
     /\ \E i \in 1..Len(out.risk_alerts) :
          out.risk_alerts[i] = [kind |-> "Gusts", value |-> 25]
     /\ AlertsOf("Low visibility") = <<>>
     /\ AlertsOf("Low ceiling") = <<>>

\* C3 (amended): the scenario call returns active, reason "SEVERE conditions",
\* and no risk alert at all: the gust of 25 kt is below the 30 kt of the gust
\* alert, the visibility is 10 SM and the ceiling 6000 ft.
C3_ScenarioNoAlert ==
  C3_ScenarioReturned
  => /\ out.active
     /\ out.reason = "SEVERE conditions"
     /\ out.risk_alerts = <<>>

\* The scenario call has returned, its gust token being 25.
C3_Witness == C3_ScenarioReturned /\ tokens[1].gust = <<25>> /\ out.active

\* C4 as stated: the visibility behind the soft trigger (<= 3 SM) and the
\* low-visibility alert (<= 1.0 SM) is the one the SM group of the report
\* denotes, fractions included; the alert prints it to one decimal.
C4_VisibilityDenoted ==
  pc = "returned"
  => LET v == ReportVisibility(metar_text)
     IN  /\ (v # <<>> /\ v[1].num <= 3 * v[1].den) => out.active
         /\ out.active
              => AlertsOf("Low visibility") =
                   IF v # <<>> /\ v[1].num <= v[1].den
                   THEN <<[kind |-> "Low visibility", value |-> Format1f(v[1])]>>
                   ELSE <<>>

\* C5 as stated: the ceiling behind the soft trigger (< 1000 ft) and the
\* low-ceiling alert is the vertical visibility when the report has one,
\* otherwise the minimum BKN/OVC base, whatever the order of the layers.
C5_CeilingDenoted ==
  pc = "returned"
  => LET c == ReportCeiling(metar_text)
     IN  /\ (c # <<>> /\ c[1] < 1000) => out.active
         /\ out.active
              => AlertsOf("Low ceiling") =
                   IF c # <<>> /\ c[1] < 1000
                   THEN <<[kind |-> "Low ceiling", value |-> c[1]]>>
                   ELSE <<>>

\* C6 as stated: a wind group with a gust of 30 kt or more, its direction a
\* heading or VRB, makes the call active with the alert for that gust; a gust
\* below 30 kt never yields the alert.
C6_GustDenoted ==
  pc = "returned"
  => LET g == ReportGust(metar_text)
     IN  IF g # <<>> /\ g[1] >= 30
         THEN out.active /\ AlertsOf("Gusts") = <<[kind |-> "Gusts", value |-> g[1]]>>
         ELSE AlertsOf("Gusts") = <<>>

AlertRank(kind) ==
  IF kind = "Low visibility" THEN 1 ELSE IF kind = "Low ceiling" THEN 2 ELSE 3

\* C7: in an active result risk_alerts holds exactly the alerts whose
\* condition holds on the tokens (visibility <= 1.0 SM, ceiling < 1000 ft,
\* gust >= 30 kt), each once, with the value of its token, in the order
\* visibility, ceiling, gust: at most 3 entries, a function of the tokens
\* alone, so independent of the severity and of the route.
C7_RiskAlerts ==
  (pc = "returned" /\ out.active)
  => LET a == out.risk_alerts
     IN  /\ Len(a) <= 3
         /\ \A i \in 1..Len(a) : a[i].kind \in {"Low visibility", "Low ceiling", "Gusts"}
         /\ \A i, j \in 1..Len(a) : i < j => AlertRank(a[i].kind) < AlertRank(a[j].kind)
         /\ Len(AlertsOf("Low visibility")) = IF TokensVisAtMost(1) THEN 1 ELSE 0
         /\ Len(AlertsOf("Low ceiling")) = IF TokensCeilBelow(1000) THEN 1 ELSE 0
         /\ Len(AlertsOf("Gusts")) = IF TokensGustAtLeast(30) THEN 1 ELSE 0
         /\ \A i \in 1..Len(a) :
              /\ a[i].kind = "Low ceiling" => a[i].value = tokens[1].ceil_ft[1]
              /\ a[i].kind = "Gusts" => a[i].value = tokens[1].gust[1]
              /\ a[i].kind = "Low visibility"
                   => LET v == tokens[1].vis_sm[1]
                      IN  2 * Abs(10 * v.num - a[i].value * v.den) <= v.den

\* An active result with all three alerts.
C7_Witness ==
  /\ pc = "returned"
  /\ out.active
  /\ Len(out.risk_alerts) = 3
  /\ TokensVisAtMost(1) /\ TokensCeilBelow(1000) /\ TokensGustAtLeast(30)

\* Member i of the route has both coordinates (0.0 included), is not SEVERE
\* and lies within 350 NM of the primary.
C8_Eligible(i) ==
  LET ap == RouteLegs[i]
  IN  /\ ap.info.latitude # <<>>
      /\ ap.info.longitude # <<>>
      /\ ap.severity # "SEVERE"
      /\ haversine_nm(primary_info.latitude[1], primary_info.longitude[1],
                      ap.info.latitude[1], ap.info.longitude[1]) <= 350 * 100

\* C8 as stated: when the call is active, the route non-empty and the primary
\* has coordinates, the candidates before truncation are exactly the members
\* with coordinates (0.0 included), not SEVERE, within 350 NM; the result has
\* at most 5 of them, none SEVERE, none beyond 350 NM.
C8_CandidatesAreEligibleMembers ==
  (/\ pc = "returned"
   /\ out.active
   /\ Len(RouteLegs) > 0
   /\ primary_info.latitude # <<>>
   /\ primary_info.longitude # <<>>)
  => /\ Len(candidates) = Cardinality({i \in 1..Len(RouteLegs) : C8_Eligible(i)})
     /\ \A i \in 1..Len(RouteLegs) :
          C8_Eligible(i) => \E k \in 1..Len(candidates) :
                              candidates[k].code = RouteLegs[i].code
     /\ Len(out.alternate_candidates) <= 5
     /\ \A k \in 1..Len(out.alternate_candidates) :
          /\ out.alternate_candidates[k].severity # "SEVERE"
          /\ out.alternate_candidates[k].distance_nm <= 350 * 10

IsClear(c) == c.severity = "CLEAR"

\* C9: alternate_candidates has every CLEAR candidate before every non-CLEAR
\* one, and distance_nm non-decreasing within each of the two groups; it is
\* the first 5 of the candidates in that order, so no CLEAR candidate is
\* dropped while a non-CLEAR one is kept.
C9_ClearFirstThenNearest ==
  pc = "returned"
  => LET a == out.alternate_candidates
         n == Len(a)
     IN  /\ \A i, j \in 1..n :
              i < j => /\ IsClear(a[j]) => IsClear(a[i])
                       /\ (IsClear(a[i]) = IsClear(a[j]))
                            => a[i].distance_nm <= a[j].distance_nm
         /\ n = IF Len(candidates) < 5 THEN Len(candidates) ELSE 5
         /\ \A i \in 1..n : \E k \in 1..Len(candidates) : candidates[k] = a[i]
         /\ \A k \in 1..Len(candidates) :
              \/ \E i \in 1..n : a[i] = candidates[k]
              \/ /\ n = 5
                 /\ IsClear(candidates[k]) => IsClear(a[n])
                 /\ (IsClear(a[n]) = IsClear(candidates[k]))
                      => a[n].distance_nm <= candidates[k].distance_nm
         /\ (\E i \in 1..n : ~IsClear(a[i]))
              => Len(SelectSeq(a, IsClear)) = Len(SelectSeq(candidates, IsClear))

\* More than 5 candidates, and a CLEAR airport ranked before a nearer
\* non-CLEAR one.
C9_Witness ==
  /\ pc = "returned"
  /\ Len(candidates) > 5
  /\ Len(out.alternate_candidates) = 5
  /\ \E i, j \in 1..5 :
       /\ i < j
       /\ IsClear(out.alternate_candidates[i])
       /\ ~IsClear(out.alternate_candidates[j])
       /\ out.alternate_candidates[i].distance_nm > out.alternate_candidates[j].distance_nm

LacksCoordinate(info) == info.latitude = <<>> \/ info.longitude = <<>>

\* C10: missing coordinates never fail the call: it returns; a member
\* without a latitude or longitude is no candidate; and when the primary
\* lacks a coordinate alternate_candidates is empty while the detour
\* suggestion (some member SEVERE) and the delay advisory (MODERATE or SEVERE
\* members >= max(2, total // 2)) are still those of the route.
C10_MissingCoordinates ==
  pc # "called"
  => /\ pc = "returned"
     /\ \A i \in 1..Len(RouteLegs) :
          LacksCoordinate(RouteLegs[i].info)
            => \A k \in 1..Len(candidates) : candidates[k].code # RouteLegs[i].code
     /\ (out.active /\ LacksCoordinate(primary_info))
          => LET n == Len(RouteLegs)
                 severe == Cardinality({i \in 1..n : RouteLegs[i].severity = "SEVERE"})
                 degraded == Cardinality({i \in 1..n :
                               RouteLegs[i].severity \in {"MODERATE", "SEVERE"}})
                 half == n \div 2
             IN  /\ out.alternate_candidates = <<>>
                 /\ (out.detour_suggestions # <<>>) = (severe > 0)
                 /\ (out.delay_advisory # <<>>)
                      = (n > 0 /\ degraded >= (IF half > 2 THEN half ELSE 2))

\* An active call whose primary has no coordinates and whose route has a
\* member without coordinates has returned a detour and a delay advisory.
C10_Witness ==
  /\ pc = "returned"
  /\ out.active
  /\ LacksCoordinate(primary_info)
  /\ \E i \in 1..Len(RouteLegs) : LacksCoordinate(RouteLegs[i].info)
  /\ out.alternate_candidates = <<>>
  /\ out.detour_suggestions # <<>>
  /\ out.delay_advisory # <<>>
  /\ out.detour_suggestions # <<>>
  /\ out.delay_advisory # <<>>

\* The number of members of the route with a severity in sevs.
MembersWith(sevs) == Cardinality({i \in 1..Len(RouteLegs) : RouteLegs[i].severity \in sevs})

\* C11: in an active result detour_suggestions is the one fixed-text
\* suggestion when some member of the route is SEVERE, however many are, and
\* empty when none is; a SEVERE primary on a route whose members are all
\* SEVERE gets no alternate candidate and still gets the suggestion.
C11_DetourSuggestion ==
  (pc = "returned" /\ out.active)
  => /\ out.detour_suggestions
          = IF MembersWith({"SEVERE"}) > 0 THEN <<DetourText>> ELSE <<>>
     /\ (/\ severity = "SEVERE"
         /\ Len(RouteLegs) > 0
         /\ MembersWith({"SEVERE"}) = Len(RouteLegs))
          => out.alternate_candidates = <<>> /\ out.detour_suggestions = <<DetourText>>

\* A SEVERE primary with coordinates on a route of several members, all
\* SEVERE, has got no alternate and the one suggestion.
C11_Witness ==
  /\ pc = "returned"
  /\ severity = "SEVERE"
  /\ ~LacksCoordinate(primary_info)
  /\ Len(RouteLegs) > 1
  /\ MembersWith({"SEVERE"}) = Len(RouteLegs)
  /\ out.alternate_candidates = <<>>
  /\ out.detour_suggestions = <<DetourText>>

\* max(2, total // 2) for a route of total members.
DegradedNeeded == IF Len(RouteLegs) \div 2 > 2 THEN Len(RouteLegs) \div 2 ELSE 2

\* C12: in an active result with a route, delay_advisory is the fixed
\* high-disruption text exactly when the members with severity MODERATE or
\* SEVERE number at least max(2, total // 2), and None otherwise; CLEAR and
\* UNKNOWN members do not count.
C12_DelayAdvisory ==
  (pc = "returned" /\ out.active /\ all_airports_in_route # <<>>)
  => out.delay_advisory
       = IF MembersWith({"MODERATE", "SEVERE"}) >= DegradedNeeded
         THEN <<DelayText>> ELSE <<>>

\* An active result without the advisory, although the members that are not
\* CLEAR reach the threshold: an UNKNOWN member was not counted.
C12_Witness ==
  /\ pc = "returned"
  /\ out.active
  /\ MembersWith({"MODERATE", "SEVERE", "UNKNOWN"}) >= DegradedNeeded
  /\ MembersWith({"MODERATE", "SEVERE"}) < DegradedNeeded
  /\ out.delay_advisory = <<>>

\* C13 as stated: whenever the advisory is emitted, the MODERATE or SEVERE
\* members are at least half of the members of the route.
C13_HalfOrMoreCompromised ==
  (pc = "returned" /\ out.delay_advisory # <<>>)
  => 2 * MembersWith({"MODERATE", "SEVERE"}) >= Len(RouteLegs)

\* C13 (amended): whenever the advisory is emitted, the MODERATE or SEVERE
\* members number at least 2 and at least the integer half total // 2 of the
\* members, which for an odd total is less than half.
C13_FloorOfHalfCompromised ==
  (pc = "returned" /\ out.delay_advisory # <<>>)
  => /\ MembersWith({"MODERATE", "SEVERE"}) >= 2
     /\ MembersWith({"MODERATE", "SEVERE"}) >= Len(RouteLegs) \div 2

\* The advisory emitted for a route of five members, two of them degraded.
C13_Witness ==
  /\ pc = "returned"
  /\ out.delay_advisory # <<>>
  /\ Len(RouteLegs) = 5
  /\ MembersWith({"MODERATE", "SEVERE"}) = 2

\* The characters c and d are the same letter in either case, or the same
\* character.
SameLetter(c, d) ==
  c = d \/ \E i \in 1..26 : {c, d} = {LowerChars[i], UpperChars[i]}

\* The marker occurs in the text, in any letter case.
Occurs(text, marker) ==
  \E i \in 1..(Len(text) - Len(marker) + 1) :
    \A k \in 1..Len(marker) : SameLetter(text[i + k - 1], marker[k])

SevereMarkers ==
  {<<"T", "S">>, <<"+", "T", "S">>, <<"T", "S", "R", "A">>, <<"C", "B">>, <<"F", "C">>,
   <<"+", "G", "R">>, <<"V", "A">>, <<"S", "Q">>}

HasSevereMarker(text) == \E m \in SevereMarkers : Occurs(text, m)

\* C14: the classifier returns SEVERE for every text that contains, in any
\* letter case, one of TS, +TS, TSRA, CB, FC, +GR, VA, SQ, whatever else the
\* text holds and wherever the marker stands.
C14_SevereMarker ==
  (pc = "returned" /\ raw # <<>> /\ HasSevereMarker(raw[1])) => ret = <<"SEVERE">>

\* A text with a lower-case severe marker after a moderate marker has been
\* classified SEVERE.
C14_Witness ==
  /\ pc = "returned"
  /\ raw # <<>>
  /\ \E i, j \in 1..Len(raw[1]) :
       /\ i < j
       /\ LitAt(raw[1], i, <<"B", "R">>)
       /\ LitAt(raw[1], j, <<"t", "s">>)
  /\ ret = <<"SEVERE">>

\* A precipitation-family substring: RA, SN, DZ, SHRA, SHSN.
HasPrecipitation(text) ==
  \E m \in {<<"R", "A">>, <<"S", "N">>, <<"D", "Z">>, <<"S", "H", "R", "A">>,
            <<"S", "H", "S", "N">>} : Occurs(text, m)

\* A substring BR, FG or HZ.
HasObscuration(text) ==
  \E m \in {<<"B", "R">>, <<"F", "G">>, <<"H", "Z">>} : Occurs(text, m)

\* A BKN or OVC layer whose 3-digit base code is in 000..029.
HasLowLayer(text) ==
  \E i \in 1..(Len(text) - 5) :
    /\ \E cov \in {<<"B", "K", "N">>, <<"O", "V", "C">>} :
         \A k \in 1..3 : SameLetter(text[i + k - 1], cov[k])
    /\ AllDigits(SubSeq(text, i + 3, i + 5))
    /\ ParseInt(SubSeq(text, i + 3, i + 5)) <= 29

\* C15: for a non-empty text without a severe marker the classifier returns
\* MODERATE exactly when at least one of the three moderate conditions holds
\* (precipitation, obscuration, a BKN/OVC base code in 000..029), several of
\* them still giving MODERATE, and CLEAR otherwise; the text
\* "KXXX 251200Z 10008KT 10SM CLR 25/10 A3000" is CLEAR.  Markers are read
\* in any letter case.
C15_ModerateOrClear ==
  /\ (pc = "returned" /\ raw # <<>> /\ Len(raw[1]) > 0 /\ ~HasSevereMarker(raw[1]))
       => ret = IF HasPrecipitation(raw[1]) \/ HasObscuration(raw[1]) \/ HasLowLayer(raw[1])
                THEN <<"MODERATE">> ELSE <<"CLEAR">>
  /\ (pc = "returned" /\ raw = <<ClearExampleText>>) => ret = <<"CLEAR">>

\* A text with precipitation, an obscuration and a low layer, without a
\* severe marker, has been classified MODERATE.
C15_Witness ==
  /\ pc = "returned"
  /\ raw # <<>>
  /\ ~HasSevereMarker(raw[1])
  /\ HasPrecipitation(raw[1]) /\ HasLowLayer(raw[1])
  /\ ret = <<"MODERATE">>

\* C16: the classifier returns UNKNOWN if and only if its argument is None
\* or the empty text; every non-empty text gives CLEAR, MODERATE or SEVERE.
C16_UnknownIffEmpty ==
  pc = "returned"
  => /\ (ret = <<"UNKNOWN">>) = (raw = <<>> \/ raw[1] = <<>>)
     /\ ret # <<"UNKNOWN">> => ret[1] \in {"CLEAR", "MODERATE", "SEVERE"}

\* The empty text has been classified UNKNOWN.
C16_Witness == pc = "returned" /\ raw = <<<<>>>> /\ ret = <<"UNKNOWN">>

\* The whitespace-separated groups of the argument of the tokenizer.
RawGroups == IF raw = <<>> THEN <<>> ELSE Groups(raw[1])

StartsWith(g, prefix) == Len(g) >= Len(prefix) /\ SubSeq(g, 1, Len(prefix)) = prefix

\* The set of the groups of the argument.
RawGroupSet == {RawGroups[i] : i \in 1..Len(RawGroups)}

TokenFields == {"wind", "vis", "wx", "clouds", "vv", "temp", "dew", "alt"}

\* The record of defaults: None and empty lists.
DefaultTokens ==
  [wind |-> <<>>, vis |-> <<>>, wx |-> <<>>, clouds |-> <<>>, vv |-> <<>>,
   temp |-> <<>>, dew |-> <<>>, alt |-> <<>>]

\* C17: tokenize_metar is total: for every text and for None it returns
\* without raising, the record it returns has every field, and a field whose
\* kind of group the text lacks has its default, None or the empty list.
C17_TokenizeTotal ==
  pc # "called"
  => /\ pc # "raised"
     /\ ret # <<>>
     /\ DOMAIN ret[1] = TokenFields
     /\ (\A g \in RawGroupSet : ~(EndsWith(g, <<"K", "T">>))) => ret[1].wind = <<>>
     /\ (\A g \in RawGroupSet : ~(EndsWith(g, <<"S", "M">>))) => ret[1].vis = <<>>
     /\ (\A g \in RawGroupSet : ~(\E i \in 1..Len(g) : Slice(g, i, i + 1) \in WX_CODES))
          => ret[1].wx = <<>>
     /\ (\A g \in RawGroupSet : ~(\E c \in CLOUD_CODES : StartsWith(g, c))) => ret[1].clouds = <<>>
     /\ (\A g \in RawGroupSet : ~(StartsWith(g, <<"V", "V">>))) => ret[1].vv = <<>>
     /\ (\A g \in RawGroupSet : ~(\E i \in 1..Len(g) : g[i] = "/"))
          => ret[1].temp = <<>> /\ ret[1].dew = <<>>
     /\ (\A g \in RawGroupSet : ~(StartsWith(g, <<"A">>))) => ret[1].alt = <<>>
     /\ Len(RawGroups) = 0 => ret[1] = DefaultTokens

\* The call with None has returned the record of defaults.
C17_Witness == pc = "tokenized" /\ raw = <<>> /\ ret = <<DefaultTokens>>

\* The group g is a wind group (DDD|VRB) SS[S] [G GG[G]] KT with sp speed
\* digits and gl gust digits (0: no gust part).
WindGroupShape(g, sp, gl) ==
  /\ Len(g) = 3 + sp + (IF gl = 0 THEN 0 ELSE 1 + gl) + 2
  /\ (AllDigits(SubSeq(g, 1, 3)) \/ SubSeq(g, 1, 3) = <<"V", "R", "B">>)
  /\ AllDigits(SubSeq(g, 4, 3 + sp))
  /\ gl > 0 => (g[4 + sp] = "G" /\ AllDigits(SubSeq(g, 5 + sp, 4 + sp + gl)))
  /\ EndsWith(g, <<"K", "T">>)

WindShapes == {<<sp, gl>> : sp \in 2..3, gl \in {0, 2, 3}}

IsWindGroup(g) == \E c \in WindShapes : WindGroupShape(g, c[1], c[2])

\* The string d is the decimal numeral of n.
Numeral(d, n) == Len(d) > 0 /\ AllDigits(d) /\ ParseInt(d) = n

\* C18 as stated: the wind token is that of the first wind group of the
\* text, its direction a 3-digit heading or VRB: the direction as written,
\* the speed, the gust when the group has a gust part and None when it has
\* none.
C18_FirstWindGroup ==
  pc \in {"tokenized", "summarized"}
  => LET at == Leftmost({i \in 1..Len(RawGroups) : IsWindGroup(RawGroups[i])})
     IN  at # <<>>
         => LET g == RawGroups[at[1]]
                c == CHOOSE x \in WindShapes : WindGroupShape(g, x[1], x[2])
                w == ret[1].wind
            IN  /\ w # <<>>
                /\ w[1].dir = SubSeq(g, 1, 3)
                /\ Numeral(w[1].spd, ParseInt(SubSeq(g, 4, 3 + c[1])))
                /\ IF c[2] = 0 THEN w[1].gst = <<>>
                   ELSE /\ w[1].gst # <<>>
                        /\ Numeral(w[1].gst[1],
                                   ParseInt(SubSeq(g, 5 + c[1], 4 + c[1] + c[2])))

\* The group g is a cloud group (FEW|SCT|BKN|OVC)NNN.
IsCloudGroup(g) ==
  Len(g) = 6 /\ SubSeq(g, 1, 3) \in CLOUD_CODES /\ AllDigits(SubSeq(g, 4, 6))

\* The cloud groups of the text, in textual order.
RawCloudGroups == SelectSeq(RawGroups, IsCloudGroup)

\* The bases in ft of the BKN and OVC groups of the text.
RawCeilingBases ==
  {ParseInt(SubSeq(RawCloudGroups[i], 4, 6)) * 100 :
     i \in {k \in 1..Len(RawCloudGroups) :
              SubSeq(RawCloudGroups[k], 1, 3) \in {<<"B", "K", "N">>, <<"O", "V", "C">>}}}

CeilingOrCloudsOptions(t) ==
  IF t.vv = <<>> /\ t.clouds = <<>> THEN {<<>>}
  ELSE {<<CeilingClause(c)>> :
          c \in (IF t.vv = <<>> THEN {} ELSE {t.vv[1]}) \cup CeilingBases(t.clouds)}
       \cup (IF t.clouds = <<>> THEN {} ELSE {<<CloudsClause(t.clouds)>>})

\* C20 as stated: the summary is its clauses in the order IFR flag,
\* Visibility, Ceiling-or-Clouds, Winds, Weather, Temp/dew, Altimeter, each
\* present exactly when its token is not None and not empty (Temp/dew when
\* both are, the gust part of Winds when a gust was tokenized), joined by
\* ". " and ended by one period.
C20_SummaryClauses ==
  pc = "summarized"
  => LET t == ret[1]
         rest ==    (IF t.wind # <<>> THEN <<WindsClause(t.wind[1])>> ELSE <<>>)
                 \o (IF t.wx # <<>> THEN <<WeatherClause(t.wx)>> ELSE <<>>)
                 \o (IF t.temp # <<>> /\ t.dew # <<>> THEN <<TempDewClause(t)>> ELSE <<>>)
                 \o (IF t.alt # <<>> THEN <<AltimeterClause(t)>> ELSE <<>>)
     IN  \E flag \in {<<>>, <<IfrClause>>}, cc \in CeilingOrCloudsOptions(t) :
           summary[1] =
             JoinWith(flag \o (IF t.vis # <<>> THEN <<VisibilityClause(t)>> ELSE <<>>)
                           \o cc \o rest, <<".", " ">>) \o <<".">>

\* The ceiling value derived from the tokens t: the vertical visibility if
\* present, otherwise the lowest BKN/OVC base, otherwise none.
DerivedCeiling(t) ==
  IF t.vv # <<>> THEN t.vv
  ELSE IF CeilingBases(t.clouds) = {} THEN <<>>
  ELSE <<CHOOSE b \in CeilingBases(t.clouds) : \A c \in CeilingBases(t.clouds) : b <= c>>

\* C21 as stated: the summary has "Ceiling N ft" for every derived ceiling
\* N, a derived ceiling of 0 ft included, and then no Clouds clause; it lists
\* the layers as "Clouds ..." when there are layers and no derived ceiling;
\* and it begins with "IFR conditions" exactly when the visibility is one of
\* 1/4, 1/2, 3/4, 1, 2 SM or the derived ceiling is below 1000 ft.
C21_CeilingDerived ==
  pc = "summarized"
  => LET t == ret[1]
         d == DerivedCeiling(t)
     IN  /\ d # <<>> => /\ Contains(summary[1], CeilingClause(d[1]))
                        /\ ~Contains(summary[1], <<"C", "l", "o", "u", "d", "s", " ">>)
         /\ (d = <<>> /\ t.clouds # <<>>) => Contains(summary[1], CloudsClause(t.clouds))
         /\ StartsWith(summary[1], IfrClause)
              <=> \/ t.vis # <<>> /\ t.vis[1] \in IfrVisibilities
                  \/ d # <<>> /\ d[1] < 1000

\* The values of the numeric literals of a text: its maximal runs of digits.
NumeralsOf(text) ==
  {ParseInt(SubSeq(text, i, j)) :
     <<i, j>> \in {p \in (1..Len(text)) \X (1..Len(text)) :
                     /\ p[1] <= p[2]
                     /\ \A k \in p[1]..p[2] : IsDigit(text[k])
                     /\ ~IsDigit(CharAt(text, p[1] - 1))
                     /\ ~IsDigit(CharAt(text, p[2] + 1))}}

\* The numbers among the values of the tokens t: the numerals of its strings
\* (the base codes of the clouds among them) and the vertical visibility.
TokenNumbers(t) ==
  UNION ({NumeralsOf(o[1]) : o \in {x \in {t.vis, t.temp, t.dew, t.alt} : x # <<>>}}
         \cup {NumeralsOf(t.wx[i]) : i \in 1..Len(t.wx)}
         \cup {NumeralsOf(t.clouds[i][1]) \cup NumeralsOf(t.clouds[i][2]) : i \in 1..Len(t.clouds)}
         \cup (IF t.wind = <<>> THEN {}
               ELSE {NumeralsOf(t.wind[1].dir), NumeralsOf(t.wind[1].spd),
                     IF t.wind[1].gst = <<>> THEN {} ELSE NumeralsOf(t.wind[1].gst[1])})
         \cup {IF t.vv = <<>> THEN {} ELSE {t.vv[1]}})

C26_CacheExpiresByAge ==
  /\ (lookup # <<>> /\ lookup[1].cached) => lookup[1].age < cache_duration[lookup[1].manager]
  /\ \A m \in Managers :
       (cache[m] # <<>> /\ now - cache[m][1] >= cache_duration[m])
         => ~is_cached_valid(cache, m, now)

\* The number of an altimeter token: its leading digits and point.
AltimeterNumber(alt) ==
  SubSeq(alt, 1, CHOOSE n \in 0..Len(alt) :
                   /\ \A k \in 1..n : alt[k] \in Digits \cup {"."}
                   /\ (n = Len(alt) \/ alt[n + 1] \notin Digits \cup {"."}))

\* The narrative n is not empty and has the visibility string, the
\* altimeter number and the wind direction, speed and gust of the tokens t,
\* as far as they were tokenized.
Acceptable(n, t) ==
  /\ n # <<>>
  /\ t.vis # <<>> => Contains(n, t.vis[1])
  /\ t.alt # <<>> => Contains(n, AltimeterNumber(t.alt[1]))
  /\ t.wind # <<>> => /\ Contains(n, t.wind[1].dir)
                      /\ Contains(n, t.wind[1].spd)
                      /\ t.wind[1].gst \notin {<<>>, <<<<>>>>} => Contains(n, t.wind[1].gst[1])

\* C23: summarize_station returns the generated narrative only if it is not
\* empty and has the tokenized visibility string, altimeter number and wind
\* direction, speed and (if one was tokenized) gust; in every other case,
\* a provider failure, a missing key and an empty output included, it
\* returns the deterministic summary of the same tokens.
C23_NarrativeOrFallback ==
  pc = "returned"
  => summary[1] = IF Acceptable(narrative[1], ret[1]) THEN narrative[1]
                  ELSE deterministic_summary(ret[1])

\* A narrative that has everything but the gust of the tokens was replaced
\* by the deterministic summary.
C23_Witness ==
  /\ pc = "returned"
  /\ narrative[1] = GustlessNarrative
  /\ ret[1].vis # <<>> /\ ret[1].alt # <<>> /\ ret[1].wind # <<>>
  /\ ret[1].wind[1].gst = <<<<"2", "5">>>>
  /\ summary[1] = deterministic_summary(ret[1])
  /\ summary[1] # narrative[1]

\* C24 as stated: no text summarize_station returns has a number that is
\* absent from the tokenized fields (a cloud base counted in feet).
C24_NoHallucinatedNumber ==
  pc = "returned"
  => NumeralsOf(summary[1])
       \subseteq TokenNumbers(ret[1])
                 \cup {ParseInt(ret[1].clouds[i][2]) * 100 : i \in 1..Len(ret[1].clouds)}

\* C28: the deterministic summary of the tokens of every text is not empty
\* and passes _verify_text_matches_tokens against these tokens.
C28_FallbackPassesVerification ==
  pc = "summarized"
  => /\ Len(summary[1]) > 0
     /\ verify_text_matches_tokens(summary[1], ret[1])

\* The summary of a text with a visibility, an altimeter and a wind with a
\* gust, all of which the verification looks for.
C28_Witness ==
  /\ pc = "summarized"
  /\ ret[1].vis # <<>> /\ ret[1].alt # <<>> /\ ret[1].wind # <<>>
  /\ ret[1].wind[1].gst = <<<<"2", "5">>>>
  /\ verify_text_matches_tokens(summary[1], ret[1])

\* The call for (32.1161, -110.9410) and (33.9425, -118.4081) has returned.
ScenarioDistanceReturned ==
  /\ pc = "returned"
  /\ raw = <<<<321161, -1109410, 339425, -1184081>>>>

\* The distance d (in 1/100 NM) is within 2 percent of nm NM.
Within2Percent(d, nm) == 100 * Abs(d - 100 * nm) <= 2 * 100 * nm

\* C25 as stated: the distance returned for (32.1161, -110.9410) and
\* (33.9425, -118.4081) is within 2 percent of 446 NM.
C25_DistanceNear446 ==
  ScenarioDistanceReturned => Within2Percent(ret[1], 446)

\* C25 (amended): the distance returned for (32.1161, -110.9410) and
\* (33.9425, -118.4081) is within 2 percent of 391 NM.
C25_DistanceNear391 ==
  ScenarioDistanceReturned => Within2Percent(ret[1], 391)

\* The scenario call has returned a distance between 389 and 394 NM.
C25_Witness ==
  /\ ScenarioDistanceReturned
  /\ ret[1] >= 38900 /\ ret[1] <= 39400

\* The order CLEAR < MODERATE < SEVERE.
SeverityRank(sev) == CASE sev = "CLEAR" -> 1 [] sev = "MODERATE" -> 2 [] sev = "SEVERE" -> 3 [] OTHER -> 0

\* C27: the severity returned for a text is at least the severity of each
\* of its non-empty parts x, the text being p + x + s.
C27_MonotoneUnderExtension ==
  (pc = "returned" /\ ~Falsy(raw))
  => \A i \in 1..Len(raw[1]) : \A j \in i..Len(raw[1]) :
       SeverityRank(analyze_severity(<<SubSeq(raw[1], i, j)>>)) <= SeverityRank(ret[1])

\* A SEVERE text with a part that is MODERATE and a part that is CLEAR.
C27_Witness ==
  /\ pc = "returned"
  /\ ret = <<"SEVERE">>
  /\ \E i \in 1..Len(raw[1]) : \E j \in i..Len(raw[1]) :
       /\ SubSeq(raw[1], i, j) = <<"-", "R", "A">>
       /\ analyze_severity(<<SubSeq(raw[1], i, j)>>) = "MODERATE"
  /\ analyze_severity(<<SubSeq(raw[1], 1, 4)>>) = "CLEAR"

\* The members of the route that are the primary itself, not SEVERE.
PrimaryMembers ==
  {i \in 1..Len(RouteLegs) :
     RouteLegs[i].info = primary_info /\ RouteLegs[i].severity # "SEVERE"}

\* The primary, member i of the route, is at place k of the list a with
\* distance 0.0, no other airport of its group (CLEAR or not) before it.
PrimaryListedAt(a, k, i) ==
  /\ a[k].code = RouteLegs[i].code
  /\ a[k].distance_nm = 0
  /\ \A j \in 1..(k - 1) : a[j].code = a[k].code \/ IsClear(a[j]) # IsClear(a[k])

HasCode(w, codes) == \E c \in codes : EndsWith(w, c)

\* C30: if the weather tokens of a text have a code TS, VA or SQ the
\* classifier returns SEVERE for the text, and if they have RA, SN, DZ, BR,
\* FG or HZ it returns MODERATE or SEVERE.
C30_TokensAgreeWithSeverity ==
  pc = "classified"
  => \A k \in 1..Len(ret[1].wx) :
       /\ HasCode(ret[1].wx[k], {<<"T", "S">>, <<"V", "A">>, <<"S", "Q">>})
            => severity = "SEVERE"
       /\ HasCode(ret[1].wx[k], {<<"R", "A">>, <<"S", "N">>, <<"D", "Z">>,
                                 <<"B", "R">>, <<"F", "G">>, <<"H", "Z">>})
            => severity \in {"MODERATE", "SEVERE"}

\* A text with the token +SQ classified SEVERE.
C30_Witness ==
  /\ pc = "classified"
  /\ ret[1].wx = <<<<"+", "S", "Q">>>>
  /\ severity = "SEVERE"

====
